---- MODULE Spec2Model ----
(***************************************************************************)
(* A model of evm_loader/solana_utils.py: NeonEvmClient sending an         *)
(* EthereumTransaction to the evm_loader program, single-shot or           *)
(* iteratively, through send_transaction / confirm_transaction.            *)
(*                                                                         *)
(* Conventions.  Python's None is the empty tuple <<>> for public keys and *)
(* for optional records (an optional record is a sequence of length <= 1). *)
(* Public keys are non-empty tuples whose first element is a string tag.   *)
(* sha256 is an injective constructor (idealised hash).                    *)
(*                                                                         *)
(* Spec is one client sending one transaction at a time.  SpecThreads is   *)
(* two threads inside send_ethereum_trx_iterative on one client.           *)
(* SpecDerive applies the storage-address derivation to signatures.        *)
(* SpecBuild applies the instruction builders and the create-account       *)
(* layout to drawn values.  SpecClients is several clients in one process. *)
(* SpecDeploy is the commands of .github/workflows/deploy.py: the image    *)
(* commands, and trigger_proxy_action against the proxy repository's runs. *)
(***************************************************************************)
EXTENDS Integers, Sequences, FiniteSets, TLC

VARIABLES
    loader_id,   \* EvmLoader.loader_id, fixed when the loader is constructed
    collateral_pool_address,   \* NeonEvmClient.collateral_pool_address
    collateral_pool_index_buf, \* NeonEvmClient.collateral_pool_index_buf
    mode,        \* NeonEvmClient.mode
    tx,          \* the EthereumTransaction object the caller holds
    pc,          \* the position of the client inside send_ethereum_trx
    sp,          \* the position inside send_transaction: none, sent, confirmed
    path,        \* the path send_ethereum_trx dispatched to
    sign,        \* the signature made by __create_instruction_data_from_tx
    trx_count,   \* chain: the caller account's transaction count
    caller_funded, \* chain: the caller account's balance is not zero
    created,     \* chain: the storage addresses whose balance is not zero
    status,      \* chain: the confirmation status of the submitted transaction
    elapsed,     \* confirm_transaction: the polls that found no accepted status
    batch,       \* the instructions of the latest submitted transaction
    latest,      \* the result of the latest submitted batch, once fetched
    returned,    \* the value send_ethereum_trx returned
    error,       \* the exception the run ended with ("" if none)
    raised,      \* history: the error the gateway raised in this run
    nsub,        \* history: evm_loader batches submitted in this run
    hist,        \* history: per fetched result of the run, does it carry the marker
    errs,        \* history: a fetched result of the run reported an error
    inflight,    \* history: batches of the run submitted and not yet confirmed
    runKeys,     \* history: storage keys referenced by the run's instructions
    prevRef,     \* history: <<signature, storage>> of the last earlier run that
                 \* referenced a storage account (None if there is none)
    resolved,    \* history: how the run's storage step ended: "none" (not
                 \* taken), "kept", "found" or "created"
    thread,      \* SpecThreads: per thread, its position in
                 \* send_ethereum_trx_iterative, its transaction's _storage,
                 \* the count it read, its signature and its error
    used,        \* SpecThreads, history: the <<signature, storage>> pairs of
                 \* the submitted partial calls
    late,        \* SpecThreads, history: a create-with-seed transaction was
                 \* submitted for an account that had a balance
    derived,     \* SpecDerive: the storage derivations made so far, each
                 \* with the signature it was made from
    info,        \* history: what get_account_info answered when the run read
                 \* the caller's account (read is FALSE before that)
    instances,   \* SpecClients: the NeonEvmClient objects of the process,
                 \* with the history of their set_execute_mode and send calls
    ci,          \* SpecDeploy: the commands of deploy.py run by one workflow,
                 \* the runs of the proxy workflow on GitHub, and history
    built        \* SpecBuild: the instruction built last, with the values
                 \* it was built from (None before the first)

vars == <<loader_id, collateral_pool_address, collateral_pool_index_buf,
          mode, tx, pc, sp, path, sign, trx_count, caller_funded,
          created,
          status, elapsed, batch, latest, returned, error, raised, nsub, hist,
          errs, inflight, runKeys, prevRef, resolved, thread, used, late,
          derived, info, instances, ci, built>>

\* ------------------------------------------------------------------ bounds
\* The caller's on-chain transaction count ranges over 0..MaxNonce.
MaxNonce == 1
\* The derivations of a storage address that are compared with each other.
MaxDerivations == 2
\* At most MaxSubmits evm_loader batches are submitted in one run (the code's
\* loop is unbounded; the guard of the continue submission caps it).
MaxSubmits == 3
\* confirm_transaction's budget TIMEOUT / sleep_time, scaled down: the number
\* of status polls before it raises.
MaxPolls == 2
\* An iteration cap K a caller would impose on the continue loop (the source
\* has no such parameter; used only to state the cap contract).
IterationCap == 1

\* The runs other dispatches create on the proxy branch, and the polls of
\* one wait_condition.
MaxOtherRuns == 1
MaxWaits == 2

\* ------------------------------------------------------- program constants
\* The completion marker compared with data[0].
FinalizeMarker == 6
\* collateral_pool_index in NeonEvmClient.__init__.
collateral_pool_index == 2
\* The default step budget of EthereumTransaction.
DefaultSteps == 500
\* sign[:8]: the number of signature bytes that make the seed.
SeedBytes == 8

None == <<>>
\* The payload (trx_data) of the transactions: one opaque byte string.  It
\* enters the run only through the signature, together with the nonce.
Payloads == {<<1>>}

Last(s) == s[Len(s)]

\* ------------------------------------------------------------ base58, hex
\* base58.b58decode on a string given as its alphabet indices 0..57
\* ('1' is 0, '7' is 6): the leading '1's become zero bytes, the rest is
\* read as a base-58 number and written as big-endian bytes.
RECURSIVE LeadingOnes(_)
LeadingOnes(s) ==
    IF s = <<>> \/ s[1] # 0 THEN 0 ELSE 1 + LeadingOnes(Tail(s))

RECURSIVE B58Int(_, _)
B58Int(s, acc) ==
    IF s = <<>> THEN acc ELSE B58Int(Tail(s), acc * 58 + s[1])

RECURSIVE BigEndian(_)
BigEndian(n) ==
    IF n = 0 THEN <<>> ELSE Append(BigEndian(n \div 256), n % 256)

b58decode(s) ==
    [i \in 1 .. LeadingOnes(s) |-> 0] \o BigEndian(B58Int(s, 0))

\* bytes.hex(): two hexadecimal digits per byte.
RECURSIVE hex(_)
hex(bs) ==
    IF bs = <<>> THEN <<>>
    ELSE <<bs[1] \div 16, bs[1] % 16>> \o hex(Tail(bs))

\* --------------------------------------------------------------- addresses
system == <<"system">>
sysinstruct == <<"sysinstruct">>
keccakprog == <<"keccakprog">>
EVM_LOADER == <<"EVM_LOADER">>
ETH_TOKEN_MINT_ID == <<"ETH_TOKEN_MINT_ID">>
TOKEN_PROGRAM_ID == <<"TOKEN_PROGRAM_ID">>
ASSOCIATED_TOKEN_PROGRAM_ID == <<"ASSOCIATED_TOKEN_PROGRAM_ID">>
rentid == <<"rentid">>
collateral_pool_base == <<"collateral_pool_base">>
\* solana_wallet.public_key() of the client.
wallet_public_key == <<"wallet">>
\* EvmLoader(acc, programId=EVM_LOADER): the default program id, or the id
\* the caller passes, or the id of the program deployed when it passes None.
LoaderIds == {EVM_LOADER, <<"deployed">>}
\* The fixed fields of the transaction object.
\* ether_caller: the 20 bytes of the caller's ethereum address.
ether_caller == [i \in 1 .. 20 |-> i]
contract_account == <<"contract">>
contract_code_account == <<"contract_code">>

accountWithSeed(base, seed, program) == <<"sha256", base, seed, program>>

get_associated_token_address(owner, mint) == <<"ata", owner, mint>>

\* The pool address derived under the program id of the client's loader.
create_collateral_pool_address_loader(index) ==
    accountWithSeed(collateral_pool_base, <<"collateral_seed_", index>>, loader_id)

create_collateral_pool_address(index) ==
    accountWithSeed(collateral_pool_base, <<"collateral_seed_", index>>, EVM_LOADER)

\* evm_loader.ether2program(ether)[0]: the program-derived account.
ether2program(ether) == <<"program_address", ether>>

\* make_instruction_data_from_tx(trx_raw, secret_key): the signature of the
\* raw transaction, a byte string; the raw transaction is determined by the
\* nonce and the payload, and signing is deterministic.  Nine bytes stand
\* for the 65 of a signature: the eight that make the seed and a tail.
Sign(nonce, data) == <<16 * data[1] + nonce, 1, 2, 3, 4, 5, 6, 7, 27>>

\* The storage address __create_storage_account derives from the seed.
StorageAddress(seed) ==
    accountWithSeed(wallet_public_key, seed, loader_id)

\* A seed made of the whole signature.
StorageSeed_whole(sg) == hex(sg)

\* sign[:8].hex()
StorageSeed(sg) == hex(SubSeq(sg, 1, SeedBytes))

\* ------------------------------------------------------------------- bytes
\* An integer written most significant byte first.
RECURSIVE to_bytes_big(_, _)
to_bytes_big(n, length) ==
    IF length = 0 THEN <<>>
    ELSE to_bytes_big(n \div 256, length - 1) \o <<n % 256>>

\* int.to_bytes(length, 'little'): the integer written least significant
\* byte first.
RECURSIVE to_bytes(_, _)
to_bytes(n, length) ==
    IF length = 0 THEN <<>>
    ELSE <<n % 256>> \o to_bytes(n \div 256, length - 1)

\* int.from_bytes(b, 'little')
RECURSIVE from_bytes(_)
from_bytes(b) ==
    IF b = <<>> THEN 0 ELSE b[1] + 256 * from_bytes(Tail(b))

\* ACCOUNT_INFO_LAYOUT: the fields of an account record in order, each with
\* its width in bytes.
ACCOUNT_INFO_LAYOUT ==
    <<<<"type", 1>>, <<"eth_acc", 20>>, <<"nonce", 1>>, <<"trx_count", 8>>,
      <<"code_acc", 32>>, <<"is_blocked", 1>>, <<"blocked_by", 32>>,
      <<"eth_token", 32>>>>

\* ACCOUNT_INFO_LAYOUT.sizeof()
RECURSIVE sizeof(_)
sizeof(layout) ==
    IF layout = <<>> THEN 0 ELSE layout[1][2] + sizeof(Tail(layout))

\* The offset of a field: the widths of the fields before it.
RECURSIVE offset(_, _)
offset(layout, field) ==
    IF layout[1][1] = field THEN 0
    ELSE layout[1][2] + offset(Tail(layout), field)

\* AccountInfo.frombytes(data): ACCOUNT_INFO_LAYOUT.parse, of which the
\* address and the count are kept.
AccountInfo_frombytes(data) ==
    [eth_acc |-> SubSeq(data, offset(ACCOUNT_INFO_LAYOUT, "eth_acc") + 1,
                              offset(ACCOUNT_INFO_LAYOUT, "nonce")),
     trx_count |-> SubSeq(data, offset(ACCOUNT_INFO_LAYOUT, "trx_count") + 1,
                                offset(ACCOUNT_INFO_LAYOUT, "code_acc"))]

\* A getAccountData that fills what is missing of the expected length with
\* zero bytes and raises nothing.
getAccountData_padded(answer, expected_length) ==
    [error |-> "",
     data |-> IF Len(answer.data) < expected_length
              THEN answer.data
                     \o [i \in 1 .. expected_length - Len(answer.data) |-> 0]
              ELSE answer.data]

\* getAccountData(client, account, expected_length) given the node's answer:
\* the data, or the exception raised.
getAccountData(answer, expected_length) ==
    IF ~answer.exists
    THEN [error |-> "Exception", data |-> <<>>]
    ELSE IF Len(answer.data) < expected_length
    THEN [error |-> "Exception", data |-> <<>>]
    ELSE [error |-> "", data |-> answer.data]

\* getTransactionCount(client, sol_account) given the node's answer: the
\* count, or the exception of getAccountData.
getTransactionCount(answer) ==
    LET got == getAccountData(answer, sizeof(ACCOUNT_INFO_LAYOUT))
    IN  IF got.error # ""
        THEN [error |-> got.error, res |-> None]
        ELSE [error |-> "",
              res |-> from_bytes(AccountInfo_frombytes(got.data).trx_count)]

\* evm_loader.ether2program(ether)[1] for the caller's address.
caller_nonce == 255

\* The record the evm_loader program keeps in the caller's account when the
\* account's transaction count is count.
AccountRecord(count) ==
    <<1>> \o ether_caller \o <<caller_nonce>> \o to_bytes(count, 8)
      \o [i \in 1 .. 32 |-> 0] \o <<0>> \o [i \in 1 .. 32 |-> 0]
      \o [i \in 1 .. 32 |-> 0]

\* The run has not read the caller's account.
NotRead == [read |-> FALSE, exists |-> FALSE, data |-> <<>>]

\* What get_account_info may answer for the caller's account: no account, an
\* account without data, an account whose data is one byte short of a
\* record, or the account's record.
AccountReads(count) ==
    {[read |-> TRUE, exists |-> FALSE, data |-> <<>>],
     [read |-> TRUE, exists |-> TRUE, data |-> <<>>],
     [read |-> TRUE, exists |-> TRUE,
      data |-> SubSeq(AccountRecord(count), 1, Len(AccountRecord(count)) - 1)],
     [read |-> TRUE, exists |-> TRUE, data |-> AccountRecord(count)]}

\* ------------------------------------------------------------ instructions
AccountMeta(pubkey, is_signer, is_writable) ==
    [pubkey |-> pubkey, is_signer |-> is_signer, is_writable |-> is_writable]

TransactionInstruction(program_id, data, keys) ==
    [program_id |-> program_id, data |-> data, keys |-> keys]

\* class EthereumTransaction: the constructor.
EthereumTransactionSteps(trx_data, account_metas, steps) ==
    [trx_data |-> trx_data,
     trx_account_metas |-> account_metas,
     iterative_steps |-> steps,
     solana_ether_caller |-> None,
     storage |-> None,
     mangled_storage |-> "unset"]

\* The constructor called without a step budget: steps=500.
EthereumTransaction(trx_data, account_metas) ==
    EthereumTransactionSteps(trx_data, account_metas, DefaultSteps)

\* The extra account metas a transaction may carry (None: no list).
ExtraMetas == {None, <<AccountMeta(<<"extra">>, FALSE, TRUE)>>}

\* from_address + sign + msg
CallData(sg) == <<"from_address", sg, "msg">>

sol_instr_keccak(keccak_data) ==
    TransactionInstruction(keccakprog, keccak_data,
        <<AccountMeta(keccakprog, FALSE, FALSE)>>)

\* A call-from-raw instruction with the two token accounts after the
\* collateral pool in the other order.
sol_instr_05_swapped(t, data) ==
    TransactionInstruction(loader_id,
        <<5>> \o collateral_pool_index_buf \o data,
        <<AccountMeta(sysinstruct, FALSE, FALSE),
          AccountMeta(wallet_public_key, TRUE, TRUE),
          AccountMeta(collateral_pool_address, FALSE, TRUE),
          AccountMeta(get_associated_token_address(t.solana_ether_caller, ETH_TOKEN_MINT_ID), FALSE, TRUE),
          AccountMeta(get_associated_token_address(wallet_public_key, ETH_TOKEN_MINT_ID), FALSE, TRUE),
          AccountMeta(system, FALSE, FALSE),
          AccountMeta(contract_account, FALSE, TRUE),
          AccountMeta(get_associated_token_address(contract_account, ETH_TOKEN_MINT_ID), FALSE, TRUE),
          AccountMeta(contract_code_account, FALSE, TRUE),
          AccountMeta(t.solana_ether_caller, FALSE, TRUE),
          AccountMeta(get_associated_token_address(t.solana_ether_caller, ETH_TOKEN_MINT_ID), FALSE, TRUE),
          AccountMeta(loader_id, FALSE, FALSE),
          AccountMeta(ETH_TOKEN_MINT_ID, FALSE, FALSE),
          AccountMeta(TOKEN_PROGRAM_ID, FALSE, FALSE),
          AccountMeta(wallet_public_key, FALSE, FALSE)>>)

sol_instr_05(t, data) ==
    TransactionInstruction(loader_id,
        <<5>> \o collateral_pool_index_buf \o data,
        <<AccountMeta(sysinstruct, FALSE, FALSE),
          AccountMeta(wallet_public_key, TRUE, TRUE),
          AccountMeta(collateral_pool_address, FALSE, TRUE),
          AccountMeta(get_associated_token_address(wallet_public_key, ETH_TOKEN_MINT_ID), FALSE, TRUE),
          AccountMeta(get_associated_token_address(t.solana_ether_caller, ETH_TOKEN_MINT_ID), FALSE, TRUE),
          AccountMeta(system, FALSE, FALSE),
          AccountMeta(contract_account, FALSE, TRUE),
          AccountMeta(get_associated_token_address(contract_account, ETH_TOKEN_MINT_ID), FALSE, TRUE),
          AccountMeta(contract_code_account, FALSE, TRUE),
          AccountMeta(t.solana_ether_caller, FALSE, TRUE),
          AccountMeta(get_associated_token_address(t.solana_ether_caller, ETH_TOKEN_MINT_ID), FALSE, TRUE),
          AccountMeta(loader_id, FALSE, FALSE),
          AccountMeta(ETH_TOKEN_MINT_ID, FALSE, FALSE),
          AccountMeta(TOKEN_PROGRAM_ID, FALSE, FALSE),
          AccountMeta(wallet_public_key, FALSE, FALSE)>>)

\* A partial call whose first sysvar key is marked writable.
sol_instr_09_partial_call_writable(t, step_count, data) ==
    TransactionInstruction(loader_id,
        <<9>> \o collateral_pool_index_buf \o to_bytes(step_count, 8) \o data,
        <<AccountMeta(t.storage, FALSE, TRUE),
          AccountMeta(sysinstruct, FALSE, TRUE),
          AccountMeta(wallet_public_key, TRUE, TRUE),
          AccountMeta(collateral_pool_address, FALSE, TRUE),
          AccountMeta(system, FALSE, FALSE),
          AccountMeta(contract_account, FALSE, TRUE),
          AccountMeta(get_associated_token_address(contract_account, ETH_TOKEN_MINT_ID), FALSE, TRUE),
          AccountMeta(contract_code_account, FALSE, TRUE),
          AccountMeta(t.solana_ether_caller, FALSE, TRUE),
          AccountMeta(get_associated_token_address(t.solana_ether_caller, ETH_TOKEN_MINT_ID), FALSE, TRUE),
          AccountMeta(sysinstruct, FALSE, FALSE),
          AccountMeta(loader_id, FALSE, FALSE),
          AccountMeta(ETH_TOKEN_MINT_ID, FALSE, FALSE),
          AccountMeta(TOKEN_PROGRAM_ID, FALSE, FALSE),
          AccountMeta(wallet_public_key, FALSE, FALSE)>>)

sol_instr_09_partial_call(t, step_count, data) ==
    TransactionInstruction(loader_id,
        <<9>> \o collateral_pool_index_buf \o to_bytes(step_count, 8) \o data,
        <<AccountMeta(t.storage, FALSE, TRUE),
          AccountMeta(sysinstruct, FALSE, FALSE),
          AccountMeta(wallet_public_key, TRUE, TRUE),
          AccountMeta(collateral_pool_address, FALSE, TRUE),
          AccountMeta(system, FALSE, FALSE),
          AccountMeta(contract_account, FALSE, TRUE),
          AccountMeta(get_associated_token_address(contract_account, ETH_TOKEN_MINT_ID), FALSE, TRUE),
          AccountMeta(contract_code_account, FALSE, TRUE),
          AccountMeta(t.solana_ether_caller, FALSE, TRUE),
          AccountMeta(get_associated_token_address(t.solana_ether_caller, ETH_TOKEN_MINT_ID), FALSE, TRUE),
          AccountMeta(sysinstruct, FALSE, FALSE),
          AccountMeta(loader_id, FALSE, FALSE),
          AccountMeta(ETH_TOKEN_MINT_ID, FALSE, FALSE),
          AccountMeta(TOKEN_PROGRAM_ID, FALSE, FALSE),
          AccountMeta(wallet_public_key, FALSE, FALSE)>>)

\* A continue instruction whose storage key is derived again from the
\* current signature instead of being read from the transaction.
sol_instr_10_continue_rederived(t, step_count) ==
    TransactionInstruction(loader_id,
        <<10>> \o to_bytes(step_count, 8),
        <<AccountMeta(StorageAddress(StorageSeed(sign)), FALSE, TRUE),
          AccountMeta(wallet_public_key, TRUE, TRUE)>>)

\* A continue instruction with the sysvar and the system program in each
\* other's place.
sol_instr_10_continue_swapped(t, step_count) ==
    TransactionInstruction(loader_id,
        <<10>> \o to_bytes(step_count, 8),
        <<AccountMeta(t.storage, FALSE, TRUE),
          AccountMeta(wallet_public_key, TRUE, TRUE),
          AccountMeta(get_associated_token_address(wallet_public_key, ETH_TOKEN_MINT_ID), FALSE, TRUE),
          AccountMeta(get_associated_token_address(t.solana_ether_caller, ETH_TOKEN_MINT_ID), FALSE, TRUE),
          AccountMeta(sysinstruct, FALSE, FALSE),
          AccountMeta(contract_account, FALSE, TRUE),
          AccountMeta(get_associated_token_address(contract_account, ETH_TOKEN_MINT_ID), FALSE, TRUE),
          AccountMeta(contract_code_account, FALSE, TRUE),
          AccountMeta(t.solana_ether_caller, FALSE, TRUE),
          AccountMeta(get_associated_token_address(t.solana_ether_caller, ETH_TOKEN_MINT_ID), FALSE, TRUE),
          AccountMeta(system, FALSE, FALSE),
          AccountMeta(loader_id, FALSE, FALSE),
          AccountMeta(ETH_TOKEN_MINT_ID, FALSE, FALSE),
          AccountMeta(TOKEN_PROGRAM_ID, FALSE, FALSE),
          AccountMeta(wallet_public_key, FALSE, FALSE)>>)

sol_instr_10_continue(t, step_count) ==
    TransactionInstruction(loader_id,
        <<10>> \o to_bytes(step_count, 8),
        <<AccountMeta(t.storage, FALSE, TRUE),
          AccountMeta(wallet_public_key, TRUE, TRUE),
          AccountMeta(get_associated_token_address(wallet_public_key, ETH_TOKEN_MINT_ID), FALSE, TRUE),
          AccountMeta(get_associated_token_address(t.solana_ether_caller, ETH_TOKEN_MINT_ID), FALSE, TRUE),
          AccountMeta(system, FALSE, FALSE),
          AccountMeta(contract_account, FALSE, TRUE),
          AccountMeta(get_associated_token_address(contract_account, ETH_TOKEN_MINT_ID), FALSE, TRUE),
          AccountMeta(contract_code_account, FALSE, TRUE),
          AccountMeta(t.solana_ether_caller, FALSE, TRUE),
          AccountMeta(get_associated_token_address(t.solana_ether_caller, ETH_TOKEN_MINT_ID), FALSE, TRUE),
          AccountMeta(sysinstruct, FALSE, FALSE),
          AccountMeta(loader_id, FALSE, FALSE),
          AccountMeta(ETH_TOKEN_MINT_ID, FALSE, FALSE),
          AccountMeta(TOKEN_PROGRAM_ID, FALSE, FALSE),
          AccountMeta(wallet_public_key, FALSE, FALSE)>>)

\* createAccountWithSeed(funding, base, seed, lamports, space, program)
createAccountWithSeed(funding, base, seed, lamports, space, program) ==
    TransactionInstruction(system,
        <<"CREATE_ACCOUNT_WITH_SEED", base, seed, lamports, space, program>>,
        <<AccountMeta(funding, TRUE, TRUE),
          AccountMeta(accountWithSeed(base, seed, program), FALSE, TRUE),
          AccountMeta(base, TRUE, FALSE)>>)

\* CREATE_ACCOUNT_LAYOUT: the fields of the create-account record in order,
\* each with its width in bytes.
CREATE_ACCOUNT_LAYOUT ==
    <<<<"lamports", 8>>, <<"space", 8>>, <<"ether", 20>>, <<"nonce", 1>>>>

\* A build that writes the nonce before the ether address.
CREATE_ACCOUNT_LAYOUT_build_nonce_first(lamports, space, ether, nonce) ==
    to_bytes(lamports, 8) \o to_bytes(space, 8) \o to_bytes(nonce, 1) \o ether

\* CREATE_ACCOUNT_LAYOUT.build(dict(lamports, space, ether, nonce)):
\* Int64ul, Int64ul, Bytes(20), Int8ul.
CREATE_ACCOUNT_LAYOUT_build(lamports, space, ether, nonce) ==
    to_bytes(lamports, 8) \o to_bytes(space, 8) \o ether \o to_bytes(nonce, 1)

\* CREATE_ACCOUNT_LAYOUT.parse(b): the fields read back at the offsets the
\* widths give.
CREATE_ACCOUNT_LAYOUT_parse(b) ==
    [lamports |-> from_bytes(SubSeq(b, 1, 8)),
     space |-> from_bytes(SubSeq(b, 9, 16)),
     ether |-> SubSeq(b, 17, 36),
     nonce |-> from_bytes(SubSeq(b, 37, 37))]

\* The instruction EvmLoader.createEtherAccount builds for the address ether
\* whose program-derived account has the given nonce: opcode 02000000, then
\* the create-account record with 10**9 lamports and no space.
createEtherAccountData(ether, nonce) ==
    <<2, 0, 0, 0>> \o CREATE_ACCOUNT_LAYOUT_build(10 ^ 9, 0, ether, nonce)

createEtherAccountInstruction(ether) ==
    TransactionInstruction(loader_id,
        createEtherAccountData(ether, caller_nonce),
        <<AccountMeta(wallet_public_key, TRUE, FALSE),
          AccountMeta(ether2program(ether), FALSE, TRUE),
          AccountMeta(get_associated_token_address(ether2program(ether), ETH_TOKEN_MINT_ID), FALSE, TRUE),
          AccountMeta(system, FALSE, FALSE),
          AccountMeta(ETH_TOKEN_MINT_ID, FALSE, FALSE),
          AccountMeta(TOKEN_PROGRAM_ID, FALSE, FALSE),
          AccountMeta(ASSOCIATED_TOKEN_PROGRAM_ID, FALSE, FALSE),
          AccountMeta(rentid, FALSE, FALSE)>>)

\* The extra metas appended to the keys of the first instruction of the
\* batch.
WithExtraMetas_first(t, trx) ==
    IF t.trx_account_metas = None THEN trx
    ELSE [trx EXCEPT ![1].keys = @ \o t.trx_account_metas]

\* __send_neon_transaction: the extra metas are appended to the keys of the
\* last instruction of the batch.
WithExtraMetas(t, trx) ==
    IF t.trx_account_metas = None THEN trx
    ELSE [trx EXCEPT ![Len(trx)].keys = @ \o t.trx_account_metas]

\* ------------------------------------------------------- gateway results
\* Inner-instruction data as base58 strings (alphabet indices): "", "7"
\* (the byte 6), "6" (the byte 5), "TV" (the bytes 6, 0), "71" (the bytes
\* 1, 92).
DataStrings == {<<>>, <<6>>, <<5>>, <<26, 28>>, <<6, 0>>}

\* The instruction lists of one inner-instruction group.
InstructionLists ==
    {<<>>} \cup {<<d>> : d \in DataStrings} \cup {<<<<6>>, <<5>>>>, <<<<5>>, <<6>>>>}

\* meta.innerInstructions: the batches of this client have one instruction
\* that invokes other programs, so there is at most one group.
InnerInstructions == {<<>>} \cup {<<g>> : g \in InstructionLists}

\* What get_confirmed_transaction returns: meta.err and meta.innerInstructions.
Results == [err : BOOLEAN, innerInstructions : InnerInstructions]

\* The completion check that reads the first instruction of the group.
inspect_result_first(result) ==
    IF result.innerInstructions # <<>> /\ result.innerInstructions[1] # <<>>
    THEN LET data == b58decode(result.innerInstructions[1][1])
         IN  IF data = <<>> THEN "IndexError"
             ELSE IF data[1] = FinalizeMarker THEN "return" ELSE "loop"
    ELSE "loop"

\* The completion check of the continue loop: "return", "loop", or the
\* IndexError of data[0] on empty data.
inspect_result(result) ==
    IF result.innerInstructions # <<>> /\ result.innerInstructions[1] # <<>>
    THEN LET data == b58decode(Last(result.innerInstructions[1]))
         IN  IF data = <<>> THEN "IndexError"
             ELSE IF data[1] = FinalizeMarker THEN "return" ELSE "loop"
    ELSE "loop"

\* confirm_transaction accepting every status the node knows, whatever its
\* confirmation status.
status_accepted_landed(st, confirmations) == st # "none"

\* confirm_transaction accepting every response that has a status.
status_accepted_any(st, confirmations) == TRUE

\* The condition under which confirm_transaction returns; the status of a
\* confirmed transaction reports 0 confirmations or more.
status_accepted(st, confirmations) ==
    /\ st # "none"
    /\ \/ st = "finalized"
       \/ st = "confirmed" /\ confirmations <= 0

\* An exception handler that swallows the error and stays where it was.
propagate_retry(p) == p

\* No handler encloses the calls of send_ethereum_trx*: an exception raised
\* at any position ends the run.
propagate(p) == "failed"

\* ---------------------------------------------------------- history helpers
\* The result carries the completion marker: the first byte of the decoded
\* data of its last inner instruction is 6.
CarriesMarker(r) ==
    /\ r.innerInstructions # <<>>
    /\ Last(r.innerInstructions) # <<>>
    /\ LET data == b58decode(Last(Last(r.innerInstructions)))
       IN  data # <<>> /\ data[1] = 6

IsIterativeBatch(b) ==
    b # <<>> /\ Last(b).program_id = loader_id /\ Last(b).data[1] \in {9, 10}

StorageKey(b) == Last(b).keys[1].pubkey

SendPcs == {"create_caller", "create_storage", "partial", "continue", "single"}
NeonPcs == {"partial", "continue", "single"}
Resting == {"idle", "done", "failed"}

\* The transactions with the partial call placed before the verification
\* instruction.
TransactionAt_consumer_first(p) ==
    CASE p = "create_caller" ->
            <<createEtherAccountInstruction(ether_caller)>>
      [] p = "create_storage" ->
            <<createAccountWithSeed(wallet_public_key, wallet_public_key,
                                    StorageSeed(sign), 10 ^ 9, 128 * 1024, EVM_LOADER)>>
      [] p = "partial" ->
            <<sol_instr_09_partial_call(tx, tx.iterative_steps, CallData(sign)),
              sol_instr_keccak(<<"keccak", 1, "len(msg)", 13>>)>>
      [] p = "continue" ->
            WithExtraMetas(tx, <<sol_instr_10_continue(tx, tx.iterative_steps)>>)
      [] p = "single" ->
            WithExtraMetas(tx,
                <<sol_instr_keccak(<<"keccak", 1, "len(msg)", 5>>),
                  sol_instr_05(tx, CallData(sign))>>)

\* The transaction send_transaction is called with at each position.
TransactionAt(p) ==
    CASE p = "create_caller" ->
            <<createEtherAccountInstruction(ether_caller)>>
      [] p = "create_storage" ->
            <<createAccountWithSeed(wallet_public_key, wallet_public_key,
                                    StorageSeed(sign), 10 ^ 9, 128 * 1024, EVM_LOADER)>>
      [] p = "partial" ->
            WithExtraMetas(tx,
                <<sol_instr_keccak(<<"keccak", 1, "len(msg)", 13>>),
                  sol_instr_09_partial_call(tx, tx.iterative_steps, CallData(sign))>>)
      [] p = "continue" ->
            WithExtraMetas(tx, <<sol_instr_10_continue(tx, tx.iterative_steps)>>)
      [] p = "single" ->
            WithExtraMetas(tx,
                <<sol_instr_keccak(<<"keccak", 1, "len(msg)", 5>>),
                  sol_instr_05(tx, CallData(sign))>>)

\* The threads that call send_ethereum_trx_iterative on one client.
Threads == {1, 2}

\* A thread that has not called the client.
NoCall ==
    [pc |-> "idle", storage |-> None, caller_trx_cnt |-> 0, sign |-> None,
     error |-> ""]

\* ---------------------------------------------------------------- deploy.py
\* Strings of deploy.py are sequences of one-character strings.
Digits == {"0", "1", "2", "3", "4", "5", "6", "7", "8", "9"}

LowerLetters ==
    {"a", "b", "c", "d", "e", "f", "g", "h", "i", "j", "k", "l", "m", "n", "o",
     "p", "q", "r", "s", "t", "u", "v", "w", "x", "y", "z"}

Alphabet == Digits \cup LowerLetters \cup {"T", "S", "F", "N", ".", "/", "-", ","}

\* One element of a pattern: a character class repeated min to max times
\* (star: any number of times from min).
Cls(chars, min, max) == [chars |-> chars, min |-> min, max |-> max, star |-> FALSE]

Star(chars) == [chars |-> chars, min |-> 0, max |-> 0, star |-> TRUE]

\* r"[vt]{1}\d{1,2}\.\d{1,2}\.x.*"
VERSION_BRANCH_TEMPLATE ==
    <<Cls({"v", "t"}, 1, 1), Cls(Digits, 1, 2), Cls({"."}, 1, 1),
      Cls(Digits, 1, 2), Cls({"."}, 1, 1), Cls({"x"}, 1, 1), Star(Alphabet)>>

\* r"[vt]{1}\d{1,2}\.\d{1,2}\.\d{1,2}"
RELEASE_TAG_TEMPLATE ==
    <<Cls({"v", "t"}, 1, 1), Cls(Digits, 1, 2), Cls({"."}, 1, 1),
      Cls(Digits, 1, 2), Cls({"."}, 1, 1), Cls(Digits, 1, 2)>>

\* The pattern matches the string from position pos on, whatever follows
\* the match.
RECURSIVE MatchAt(_, _, _)
MatchAt(pattern, s, pos) ==
    IF pattern = <<>> THEN TRUE
    ELSE LET el == pattern[1]
         IN  \E n \in el.min .. (IF el.star THEN Len(s) ELSE el.max) :
                /\ pos + n - 1 <= Len(s)
                /\ \A i \in pos .. pos + n - 1 : s[i] \in el.chars
                /\ MatchAt(Tail(pattern), s, pos + n)

\* re.match(pattern, s) is not None: a match at the start of the string.
re_match(pattern, s) == MatchAt(pattern, s, 1)

\* needle in haystack, for strings.
contains(haystack, needle) ==
    \E i \in 0 .. Len(haystack) - Len(needle) :
        SubSeq(haystack, i + 1, i + Len(needle)) = needle

\* str.lower() over the alphabet.
lower(s) ==
    [i \in 1 .. Len(s) |->
        CASE s[i] = "T" -> "t"
          [] s[i] = "S" -> "s"
          [] s[i] = "F" -> "f"
          [] s[i] = "N" -> "n"
          [] OTHER -> s[i]]

\* The strings the commands are called with.
s_latest == <<"l", "a", "t", "e", "s", "t">>
s_develop == <<"d", "e", "v", "e", "l", "o", "p">>
s_fullTestSuit == <<"f", "u", "l", "l", "T", "e", "s", "t", "S", "u", "i", "t">>
s_True == <<"T", "r", "u", "e">>
s_False == <<"F", "a", "l", "s", "e">>

\* A value of a Python variable: its type and what str() gives for it.
PyStr(s) == <<"str", s>>
PyBool(b) == <<"bool", IF b THEN s_True ELSE s_False>>
PyNone == <<"NoneType", <<"N", "o", "n", "e">>>>

\* f"{value}"
format(value) == value[2]

\* bool(value) as an if statement tests it.
truthy(value) ==
    CASE value[1] = "str" -> value[2] # <<>>
      [] value[1] = "bool" -> value[2] = s_True
      [] value[1] = "NoneType" -> FALSE

\* publish_image pushing the tag whatever it is.
publish_image_every(evm_sha_tag, evm_tag) == <<evm_sha_tag, evm_tag>>

\* publish_image(evm_sha_tag, evm_tag): the tags push_image_with_tag is
\* called with, in order.
publish_image(evm_sha_tag, evm_tag) ==
    <<evm_sha_tag>>
      \o (IF evm_tag # s_latest /\ ~re_match(RELEASE_TAG_TEMPLATE, evm_tag)
          THEN <<evm_tag>> ELSE <<>>)

\* finalize_image(evm_sha_tag, evm_tag): the tags push_image_with_tag is
\* called with.
finalize_image(evm_sha_tag, evm_tag) ==
    IF re_match(RELEASE_TAG_TEMPLATE, evm_tag) \/ evm_tag = s_latest
    THEN <<evm_tag>> ELSE <<>>

\* re.sub(r'\.\d+$', '.x', s): a final "." and digits replaced by ".x".
re_sub_last_number(s) ==
    IF \E k \in 1 .. Len(s) - 1 :
          s[k] = "." /\ \A i \in k + 1 .. Len(s) : s[i] \in Digits
    THEN LET k == CHOOSE k \in 1 .. Len(s) - 1 :
                     s[k] = "." /\ \A i \in k + 1 .. Len(s) : s[i] \in Digits
         IN  SubSeq(s, 1, k) \o <<"x">>
    ELSE s

\* os.getenv(name, ''): the variable is not set in the model.
getenv == PyStr(<<>>)

\* GithubClient.run_proxy_dispatches: the data dictionary it posts, made
\* from its parameters in their declared order.
run_proxy_dispatches(proxy_branch, neon_evm_branch, github_sha, full_test_suite, initial_pr, last_commit_message) ==
    [ref |-> proxy_branch,
     inputs |->
        [full_test_suite |-> PyStr(lower(format(full_test_suite))),
         neon_evm_commit |-> github_sha,
         neon_evm_branch |-> neon_evm_branch,
         initial_pr |-> initial_pr,
         neon_evm_github_event_name |-> getenv,
         neon_evm_github_ref |-> getenv,
         neon_evm_github_ref_name |-> getenv,
         neon_evm_github_head_ref |-> getenv,
         neon_evm_github_base_ref |-> getenv,
         neon_evm_last_commit_message |-> last_commit_message]]

\* trigger_proxy_action: the full-test-suite flag.
full_test_suite_of(a) ==
    \/ a.evm_tag = s_latest
    \/ a.is_evm_release = PyStr(s_True)
    \/ re_match(VERSION_BRANCH_TEMPLATE, a.evm_tag)
    \/ contains(a.labels, s_fullTestSuit)

\* trigger_proxy_action: the proxy branch, given whether a branch named as
\* the tag exists in the proxy repository.
proxy_branch_of(a, branch_exists) ==
    IF branch_exists THEN a.evm_tag
    ELSE IF truthy(a.evm_pr_version_branch) THEN format(a.evm_pr_version_branch)
    ELSE IF a.is_evm_release = PyStr(s_True) THEN re_sub_last_number(a.evm_tag)
    ELSE IF re_match(VERSION_BRANCH_TEMPLATE, a.evm_tag) THEN a.evm_tag
    ELSE s_develop

\* trigger_proxy_action: f"{pr_url}/{pr_number}/comments" if pr_number
\* else "".
initial_pr_of(a) ==
    IF truthy(a.pr_number)
    THEN format(a.pr_url) \o <<"/">> \o format(a.pr_number)
           \o <<"/", "c", "o", "m", "m", "e", "n", "t", "s">>
    ELSE <<>>

\* The arguments the workflow passes to the commands: the tags of the image
\* commands, and the arguments of trigger_proxy_action.
ShaTags == {<<"a", "1", "f">>, <<"0", "c", "9">>}

Tags ==
    {s_latest, s_develop,
     <<"v", "1", ".", "2", ".", "3">>,
     <<"t", "1", "0", ".", "2", "0", ".", "3">>,
     <<"v", "1", ".", "2", ".", "x">>,
     <<"v", "1", ".", "2">>,
     <<"a", "1", "f">>}

Labels == {<<>>, <<"x", ",">> \o s_fullTestSuit}

BranchTags ==
    {s_latest, s_develop,
     <<"v", "1", ".", "2", ".", "3">>,
     <<"v", "1", ".", "2", ".", "x">>}

Invocations ==
    [evm_sha_tag : ShaTags,
     evm_tag : BranchTags,
     labels : Labels,
     is_evm_release : {PyStr(s_True), PyStr(s_False)},
     evm_pr_version_branch : {PyStr(<<>>), PyStr(<<"v", "1", ".", "2", ".", "x">>)},
     pr_url : {PyStr(<<"p", "r">>)},
     pr_number : {PyStr(<<>>), PyStr(<<"7">>)}]

\* The ids of the runs of the proxy workflow: the run that exists before,
\* the run of the dispatch, and the runs other dispatches create.
RunIds == 1 .. 2 + MaxOtherRuns

NoData == run_proxy_dispatches(<<>>, PyNone, PyNone, PyNone, PyNone, PyNone)

\* No command of the workflow has run.
NoCi ==
    [pc |-> "idle",
     args |-> [evm_sha_tag |-> <<>>, evm_tag |-> <<>>, labels |-> <<>>,
               is_evm_release |-> PyNone, evm_pr_version_branch |-> PyNone,
               pr_url |-> PyNone, pr_number |-> PyNone],
     ran |-> {},
     pushes |-> [publish |-> <<>>, finalize |-> <<>>],
     full_test_suite |-> FALSE,
     proxy_branch |-> <<>>,
     initial_pr |-> <<>>,
     runs |-> {},
     conclusion |-> [id \in RunIds |-> "none"],
     runs_before |-> {},
     runs_count_before |-> 0,
     data |-> NoData,
     posted |-> FALSE,
     pending |-> FALSE,
     own |-> 0,
     proxy_run_id |-> 0,
     waits |-> 0,
     error |-> ""]

\* ---------------------------------------------------------------- initial
\* The NeonEvmClient objects a process may construct.
Clients == {1, 2}

\* No client is constructed yet: no mode is set, nothing was sent.
NoClients ==
    [mode |-> [c \in Clients |-> "absent"],
     asked |-> [c \in Clients |-> "none"],
     path |-> [c \in Clients |-> "none"],
     last_set |-> "none",
     last_send |-> [client |-> 0, path |-> "none", last_set |-> "none",
                    asked |-> "none"]]

\* Nothing was built yet.
NoArgs == [lamports |-> 0, space |-> 0, ether |-> <<>>, nonce |-> 0]

NotBuilt ==
    [kind |-> "none", t |-> EthereumTransaction(<<1>>, None), payload |-> <<>>,
     continues |-> 0, args |-> NoArgs, data |-> <<>>]

Init ==
    /\ loader_id \in LoaderIds
    /\ collateral_pool_address =
         create_collateral_pool_address(collateral_pool_index)
    /\ collateral_pool_index_buf = to_bytes(collateral_pool_index, 4)
    /\ mode = "SINGLE"
    /\ tx \in {EthereumTransaction(d, m) : d \in Payloads, m \in ExtraMetas}
    /\ pc = "idle"
    /\ sp = "none"
    /\ path = "SINGLE"
    /\ sign = None
    /\ trx_count = 0
    /\ caller_funded \in BOOLEAN
    /\ created = {}
    /\ status = "none"
    /\ elapsed = 0
    /\ batch = <<>>
    /\ latest = <<>>
    /\ returned = <<>>
    /\ error = ""
    /\ raised = ""
    /\ nsub = 0
    /\ hist = <<>>
    /\ errs = FALSE
    /\ inflight = 0
    /\ runKeys = {}
    /\ prevRef = None
    /\ resolved = "none"
    /\ thread = [t \in Threads |-> NoCall]
    /\ used = {}
    /\ late = FALSE
    /\ derived = <<>>
    /\ built = NotBuilt
    /\ instances = NoClients
    /\ ci = NoCi
    /\ info = NotRead

chainVars == <<trx_count, caller_funded, created>>
runHistory == <<nsub, hist, errs, inflight, runKeys, prevRef>>
sendVars == <<status, elapsed, batch>>
\* What no step of a run assigns.
\* The fields of the client and of its loader set at construction.
client == <<loader_id, collateral_pool_address, collateral_pool_index_buf>>

aside == <<client, thread, used, late, derived, built, instances, ci>>

\* ------------------------------------------------------------ the caller
\* The caller constructs another EthereumTransaction.
NewTransaction ==
    /\ pc \in Resting
    /\ \E d \in Payloads, m \in ExtraMetas : tx' = EthereumTransaction(d, m)
    /\ UNCHANGED <<mode, pc, sp, path, sign, chainVars, sendVars, latest,
                   returned, error, raised, runHistory>>
    /\ UNCHANGED <<aside, resolved, info>>

set_execute_mode ==
    /\ pc \in Resting
    /\ \E new_mode \in {"SINGLE", "ITERATIVE"} :
          /\ new_mode # mode
          /\ mode' = new_mode
    /\ UNCHANGED <<tx, pc, sp, path, sign, chainVars, sendVars, latest,
                   returned, error, raised, runHistory>>
    /\ UNCHANGED <<aside, resolved, info>>

\* A dispatch that takes the single-shot path whatever the mode is.
dispatch_single(m) == "SINGLE"

\* The two tests of send_ethereum_trx: the path taken in mode m.
dispatch(m) ==
    CASE m = "SINGLE" -> "SINGLE"
      [] m = "ITERATIVE" -> "ITERATIVE"

\* send_ethereum_trx: dispatch on the mode; both paths start with
\* __create_instruction_data_from_tx.
send_ethereum_trx ==
    /\ pc \in Resting
    /\ path' = dispatch(mode)
    /\ pc' = "caller"
    /\ sp' = "none"
    /\ sign' = None
    /\ status' = "none"
    /\ elapsed' = 0
    /\ batch' = <<>>
    /\ latest' = <<>>
    /\ returned' = <<>>
    /\ error' = ""
    /\ raised' = ""
    /\ nsub' = 0
    /\ hist' = <<>>
    /\ errs' = FALSE
    /\ inflight' = 0
    /\ runKeys' = {}
    /\ prevRef' = IF IsIterativeBatch(batch)
                  THEN <<sign, StorageKey(batch)>> ELSE prevRef
    /\ resolved' = "none"
    /\ info' = NotRead
    /\ UNCHANGED <<mode, tx, chainVars>>
    /\ UNCHANGED aside

\* A caller step that derives the address and never creates the account.
create_solana_ether_caller_unchecked ==
    /\ pc = "caller"
    /\ tx' = [tx EXCEPT !.solana_ether_caller = ether2program(ether_caller)]
    /\ pc' = "count"
    /\ UNCHANGED <<mode, sp, path, sign, chainVars, sendVars, latest, returned,
                   error, raised, runHistory>>
    /\ UNCHANGED <<aside, resolved, info>>

\* __create_solana_ether_caller up to the balance check.
create_solana_ether_caller ==
    /\ pc = "caller"
    /\ tx' = [tx EXCEPT !.solana_ether_caller = ether2program(ether_caller)]
    /\ pc' = IF caller_funded THEN "count" ELSE "create_caller"
    /\ UNCHANGED <<mode, sp, path, sign, chainVars, sendVars, latest, returned,
                   error, raised, runHistory>>
    /\ UNCHANGED <<aside, resolved, info>>

\* getTransactionCount and make_instruction_data_from_tx: the count is
\* decoded from what the node answers for the caller's account; an exception
\* of getAccountData ends the send.
create_instruction_data_from_tx ==
    /\ pc = "count"
    /\ \E answer \in AccountReads(trx_count) :
          LET caller_trx_cnt == getTransactionCount(answer)
          IN  /\ info' = answer
              /\ IF caller_trx_cnt.error # ""
                 THEN /\ pc' = "failed"
                      /\ error' = caller_trx_cnt.error
                      /\ sign' = sign
                 ELSE /\ pc' = IF path = "SINGLE" THEN "single" ELSE "storage"
                      /\ error' = error
                      /\ sign' = Sign(caller_trx_cnt.res, tx.trx_data)
    /\ UNCHANGED <<mode, tx, sp, path, chainVars, sendVars, latest, returned,
                   raised, runHistory>>
    /\ UNCHANGED <<aside, resolved>>

\* A storage step that associates nothing with the transaction.
create_storage_account_skipped ==
    /\ pc = "storage"
    /\ pc' = "partial"
    /\ UNCHANGED <<mode, tx, sp, path, sign, chainVars, sendVars, latest,
                   returned, error, raised, runHistory>>
    /\ UNCHANGED <<aside, resolved, info>>

\* The storage step of send_ethereum_trx_iterative up to the balance check
\* of __create_storage_account.
create_storage_account ==
    /\ pc = "storage"
    /\ LET storage == StorageAddress(StorageSeed(sign))
       IN  IF tx.storage # None
           THEN /\ pc' = "partial"
                /\ tx' = tx
                /\ resolved' = "kept"
           ELSE IF storage \in created
           THEN /\ pc' = "partial"
                /\ tx' = [tx EXCEPT !.storage = storage]
                /\ resolved' = "found"
           ELSE /\ pc' = "create_storage"
                /\ tx' = tx
                /\ resolved' = resolved
    /\ UNCHANGED <<mode, sp, path, sign, chainVars, sendVars, latest, returned,
                   error, raised, runHistory>>
    /\ UNCHANGED <<aside, info>>

\* ------------------------------------------------------- send_transaction
\* client.send_transaction accepts the transaction.
SubmitAccepted ==
    /\ pc \in SendPcs
    /\ sp = "none"
    /\ pc = "continue" => nsub < MaxSubmits
    /\ LET trx == TransactionAt(pc)
       IN  /\ batch' = trx
           /\ IF pc \in NeonPcs
              THEN /\ nsub' = nsub + 1
                   /\ inflight' = inflight + 1
                   /\ latest' = <<>>
              ELSE UNCHANGED <<nsub, inflight, latest>>
           /\ runKeys' = IF IsIterativeBatch(trx)
                         THEN runKeys \cup {StorageKey(trx)} ELSE runKeys
    /\ sp' = "sent"
    /\ status' = "none"
    /\ elapsed' = 0
    /\ UNCHANGED <<mode, tx, pc, path, sign, chainVars, returned, error,
                   raised, hist, errs, prevRef>>
    /\ UNCHANGED <<aside, resolved, info>>

\* client.send_transaction fails: the node rejects the transaction.
SubmitRejected ==
    /\ pc \in SendPcs
    /\ sp = "none"
    /\ pc = "continue" => nsub < MaxSubmits
    /\ raised' = "SubmissionError"
    /\ pc' = propagate(pc)
    /\ error' = IF pc' = "failed" THEN "SubmissionError" ELSE error
    /\ UNCHANGED <<mode, tx, sp, path, sign, chainVars, sendVars, latest,
                   returned, runHistory>>
    /\ UNCHANGED <<aside, resolved, info>>

\* The cluster processes, confirms and finalizes the submitted transaction.
ChainProgress ==
    /\ sp = "sent"
    /\ status # "finalized"
    /\ status' = CASE status = "none" -> "processed"
                   [] status = "processed" -> "confirmed"
                   [] status = "confirmed" -> "finalized"
    /\ inflight' = IF status = "processed" /\ pc \in NeonPcs
                   THEN inflight - 1 ELSE inflight
    /\ UNCHANGED <<mode, tx, pc, sp, path, sign, chainVars, elapsed, batch,
                   latest, returned, error, raised, nsub, hist, errs, runKeys,
                   prevRef>>
    /\ UNCHANGED <<aside, resolved, info>>

\* One round of confirm_transaction's loop: get_signature_statuses, then
\* return or sleep.
ConfirmPoll ==
    /\ pc \in SendPcs
    /\ sp = "sent"
    /\ elapsed < MaxPolls
    /\ \E resp \in {"empty", "value"} :
          IF resp = "value" /\ status_accepted(status, 0)
          THEN /\ sp' = "confirmed"
               /\ elapsed' = elapsed
          ELSE /\ sp' = sp
               /\ elapsed' = elapsed + 1
    /\ UNCHANGED <<mode, tx, pc, path, sign, chainVars, status, batch, latest,
                   returned, error, raised, runHistory>>
    /\ UNCHANGED <<aside, resolved, info>>

\* confirm_transaction's loop ends: RuntimeError("could not confirm").
ConfirmTimeout ==
    /\ pc \in SendPcs
    /\ sp = "sent"
    /\ elapsed >= MaxPolls
    /\ raised' = "RuntimeError"
    /\ pc' = propagate(pc)
    /\ sp' = IF pc' = "failed" THEN "none" ELSE "confirmed"
    /\ error' = IF pc' = "failed" THEN "RuntimeError" ELSE error
    /\ UNCHANGED <<mode, tx, path, sign, chainVars, sendVars, latest, returned,
                   runHistory>>
    /\ UNCHANGED <<aside, resolved, info>>

\* createEtherAccount's transaction is confirmed and fetched; the tokens are
\* transferred to the new account.
FetchCreateCaller ==
    /\ pc = "create_caller"
    /\ sp = "confirmed"
    /\ caller_funded' = TRUE
    /\ tx' = [tx EXCEPT !.solana_ether_caller = ether2program(ether_caller)]
    /\ pc' = "count"
    /\ sp' = "none"
    /\ status' = "none"
    /\ elapsed' = 0
    /\ UNCHANGED <<mode, path, sign, trx_count, created, batch, latest,
                   returned, error, raised, runHistory>>
    /\ UNCHANGED <<aside, resolved, info>>

\* The create-with-seed transaction is confirmed and fetched;
\* __create_storage_account returns and _storage is assigned.
FetchCreateStorage ==
    /\ pc = "create_storage"
    /\ sp = "confirmed"
    /\ created' = created \cup {batch[1].keys[2].pubkey}
    /\ tx' = [tx EXCEPT !.storage = StorageAddress(StorageSeed(sign))]
    /\ pc' = "partial"
    /\ resolved' = "created"
    /\ sp' = "none"
    /\ status' = "none"
    /\ elapsed' = 0
    /\ UNCHANGED <<mode, path, sign, trx_count, caller_funded, batch, latest,
                   returned, error, raised, runHistory>>
    /\ UNCHANGED <<aside, info>>

\* A first step that inspects the result of the [keccak, partial-call]
\* transaction like the loop does and returns on the marker.
FetchPartialInspecting ==
    /\ pc = "partial"
    /\ sp = "confirmed"
    /\ \E result \in Results :
          /\ latest' = <<result>>
          /\ hist' = Append(hist, CarriesMarker(result))
          /\ errs' = (errs \/ result.err)
          /\ IF inspect_result(result) = "return"
             THEN /\ returned' = <<result>>
                  /\ pc' = "done"
             ELSE /\ returned' = returned
                  /\ pc' = "continue"
    /\ sp' = "none"
    /\ status' = "none"
    /\ elapsed' = 0
    /\ UNCHANGED <<mode, tx, path, sign, chainVars, batch, error,
                   raised, nsub, inflight, runKeys, prevRef>>
    /\ UNCHANGED <<aside, resolved, info>>

\* The [keccak, partial-call] transaction is fetched; its result is dropped
\* and the loop is entered.
FetchPartial ==
    /\ pc = "partial"
    /\ sp = "confirmed"
    /\ \E result \in Results :
          /\ latest' = <<result>>
          /\ hist' = Append(hist, CarriesMarker(result))
          /\ errs' = (errs \/ result.err)
    /\ pc' = "continue"
    /\ sp' = "none"
    /\ status' = "none"
    /\ elapsed' = 0
    /\ UNCHANGED <<mode, tx, path, sign, chainVars, batch, returned, error,
                   raised, nsub, inflight, runKeys, prevRef>>
    /\ UNCHANGED <<aside, resolved, info>>

\* A [continue] transaction is fetched and its result inspected.
FetchContinue ==
    /\ pc = "continue"
    /\ sp = "confirmed"
    /\ \E result \in Results :
          /\ latest' = <<result>>
          /\ hist' = Append(hist, CarriesMarker(result))
          /\ errs' = (errs \/ result.err)
          /\ CASE inspect_result(result) = "return" ->
                    /\ tx' = [tx EXCEPT !.mangled_storage = "None"]
                    /\ returned' = <<result>>
                    /\ pc' = "done"
                    /\ error' = error
               [] inspect_result(result) = "loop" ->
                    /\ pc' = "continue"
                    /\ UNCHANGED <<tx, returned, error>>
               [] inspect_result(result) = "IndexError" ->
                    /\ pc' = "failed"
                    /\ error' = "IndexError"
                    /\ UNCHANGED <<tx, returned>>
    /\ sp' = "none"
    /\ status' = "none"
    /\ elapsed' = 0
    /\ UNCHANGED <<mode, path, sign, chainVars, batch, raised, nsub,
                   inflight, runKeys, prevRef>>
    /\ UNCHANGED <<aside, resolved, info>>

\* send_ethereum_trx_single: the [keccak, call-from-raw] transaction is
\* fetched and its result returned.
FetchSingle ==
    /\ pc = "single"
    /\ sp = "confirmed"
    /\ \E result \in Results :
          /\ latest' = <<result>>
          /\ returned' = <<result>>
          /\ hist' = Append(hist, CarriesMarker(result))
          /\ errs' = (errs \/ result.err)
    /\ pc' = "done"
    /\ sp' = "none"
    /\ status' = "none"
    /\ elapsed' = 0
    /\ UNCHANGED <<mode, tx, path, sign, chainVars, batch, error, raised,
                   nsub, inflight, runKeys, prevRef>>
    /\ UNCHANGED <<aside, resolved, info>>

\* ------------------------------------------------------------ environment
\* The caller account's transaction count grows (a transaction of the caller
\* was executed on chain).
BumpTrxCount ==
    /\ trx_count < MaxNonce
    /\ trx_count' = trx_count + 1
    /\ UNCHANGED <<mode, tx, pc, sp, path, sign, caller_funded, created,
                   sendVars, latest, returned, error, raised, runHistory>>
    /\ UNCHANGED <<aside, resolved, info>>

Next ==
    \/ NewTransaction
    \/ set_execute_mode
    \/ send_ethereum_trx
    \/ create_solana_ether_caller
    \/ create_instruction_data_from_tx
    \/ create_storage_account
    \/ SubmitAccepted
    \/ SubmitRejected
    \/ ChainProgress
    \/ ConfirmPoll
    \/ ConfirmTimeout
    \/ FetchCreateCaller
    \/ FetchCreateStorage
    \/ FetchPartial
    \/ FetchContinue
    \/ FetchSingle
    \/ BumpTrxCount

Spec == Init /\ [][Next]_vars

\* ---------------------------------------------------------------- threads
\* Two threads send through one client in mode ITERATIVE.  A thread holds
\* its own EthereumTransaction (payload <<1>>) and either constructs a new
\* one for a call or sends again the one it sent before; the caller account
\* exists.  The steps between the reads of the chain and the submissions are
\* separate actions because the code takes no lock around them.
mainVars ==
    <<mode, tx, pc, sp, path, sign, caller_funded, sendVars, latest, returned,
      error, raised, runHistory, resolved, info>>

InitThreads ==
    /\ Init
    /\ caller_funded
    /\ tx.trx_account_metas = None

\* The address the create instruction of a thread creates.
CreatedBy(t) ==
    createAccountWithSeed(wallet_public_key, wallet_public_key,
                          StorageSeed(thread[t].sign), 10 ^ 9, 128 * 1024,
                          EVM_LOADER).keys[2].pubkey

\* A thread calls send_ethereum_trx_iterative with a new transaction object
\* or with the object of its previous call.
Call(t) ==
    /\ thread[t].pc \in {"idle", "done", "failed"}
    /\ \E fresh \in BOOLEAN :
          thread' = [thread EXCEPT ![t] =
                        [pc |-> "count",
                         storage |-> IF fresh THEN None ELSE @.storage,
                         caller_trx_cnt |-> 0,
                         sign |-> None,
                         error |-> ""]]
    /\ UNCHANGED <<client, chainVars, used, late, derived, built, instances, ci, mainVars>>

\* A count read that waits until no other thread stands between its own
\* read and its partial call.
ReadTransactionCount_serialized(t) ==
    /\ thread[t].pc = "count"
    /\ \A o \in Threads \ {t} :
          thread[o].pc \notin {"storage", "create", "create_sent", "partial"}
    /\ thread' = [thread EXCEPT ![t].caller_trx_cnt = trx_count,
                                ![t].sign = Sign(trx_count, <<1>>),
                                ![t].pc = "storage"]
    /\ UNCHANGED <<client, chainVars, used, late, derived, built, instances, ci, mainVars>>

\* __create_instruction_data_from_tx: getTransactionCount, then the
\* transaction is built and signed with the count as its nonce.
ReadTransactionCount(t) ==
    /\ thread[t].pc = "count"
    /\ thread' = [thread EXCEPT ![t].caller_trx_cnt = trx_count,
                                ![t].sign = Sign(trx_count, <<1>>),
                                ![t].pc = "storage"]
    /\ UNCHANGED <<client, chainVars, used, late, derived, built, instances, ci, mainVars>>

\* The storage step up to the balance check of __create_storage_account.
CheckStorage(t) ==
    /\ thread[t].pc = "storage"
    /\ LET storage == StorageAddress(StorageSeed(thread[t].sign))
       IN  thread' =
             IF thread[t].storage # None
             THEN [thread EXCEPT ![t].pc = "partial"]
             ELSE IF storage \in created
             THEN [thread EXCEPT ![t].pc = "partial", ![t].storage = storage]
             ELSE [thread EXCEPT ![t].pc = "create"]
    /\ UNCHANGED <<client, chainVars, used, late, derived, built, instances, ci, mainVars>>

\* send_transaction of the create-with-seed transaction: the node accepts it.
SubmitCreate(t) ==
    /\ thread[t].pc = "create"
    /\ thread' = [thread EXCEPT ![t].pc = "create_sent"]
    /\ late' = (late \/ CreatedBy(t) \in created)
    /\ UNCHANGED <<client, chainVars, used, derived, built, instances, ci, mainVars>>

\* send_transaction of the create-with-seed transaction: the node's
\* preflight run fails because the account to create is in use, and the
\* exception ends the run.
RejectCreate(t) ==
    /\ thread[t].pc = "create"
    /\ CreatedBy(t) \in created
    /\ thread' = [thread EXCEPT ![t].pc = "failed", ![t].error = "AccountInUse"]
    /\ late' = TRUE
    /\ UNCHANGED <<client, chainVars, used, derived, built, instances, ci, mainVars>>

\* The create-with-seed transaction is executed (creating the account unless
\* it is in use) and confirmed; __create_storage_account returns the derived
\* address and _storage is assigned.
ConfirmCreate(t) ==
    /\ thread[t].pc = "create_sent"
    /\ created' = created \cup {CreatedBy(t)}
    /\ thread' = [thread EXCEPT
                    ![t].pc = "partial",
                    ![t].storage = StorageAddress(StorageSeed(thread[t].sign))]
    /\ UNCHANGED <<client, trx_count, caller_funded, used, late, derived,
                   built, instances, ci, mainVars>>

\* The [keccak, partial-call] transaction is submitted with the thread's
\* signature and storage account.
SubmitPartial(t) ==
    /\ thread[t].pc = "partial"
    /\ used' = used \cup {<<thread[t].sign, thread[t].storage>>}
    /\ thread' = [thread EXCEPT ![t].pc = "continue"]
    /\ UNCHANGED <<client, chainVars, late, derived, built, instances, ci, mainVars>>

\* The loop fetches a result with the marker and returns; the assignment of
\* line 178 leaves _storage as it is.
Return(t) ==
    /\ thread[t].pc = "continue"
    /\ thread' = [thread EXCEPT ![t].pc = "done"]
    /\ UNCHANGED <<client, chainVars, used, late, derived, built, instances, ci, mainVars>>

NextThreads ==
    \/ \E t \in Threads : Call(t)
    \/ \E t \in Threads : ReadTransactionCount(t)
    \/ \E t \in Threads : CheckStorage(t)
    \/ \E t \in Threads : SubmitCreate(t)
    \/ \E t \in Threads : RejectCreate(t)
    \/ \E t \in Threads : ConfirmCreate(t)
    \/ \E t \in Threads : SubmitPartial(t)
    \/ \E t \in Threads : Return(t)
    \/ BumpTrxCount

SpecThreads == InitThreads /\ [][NextThreads]_vars

\* ------------------------------------------------------------- derivation
\* The derivation of the storage address applied to signatures that agree
\* or differ in their first byte, in the last byte of the seed prefix and in
\* the byte after it.
Signatures ==
    {<<a, 1, 2, 3, 4, 5, 6, b, c>> : a \in {16, 17}, b \in {7, 8}, c \in {27, 28}}

InitDerive ==
    /\ Init
    /\ caller_funded
    /\ tx.trx_account_metas = None

\* sign[:8].hex() and the address derivation of __create_storage_account.
DeriveStorage ==
    /\ Len(derived) < MaxDerivations
    /\ \E sg \in Signatures :
          derived' = Append(derived,
                        [sign |-> sg,
                         storage |-> StorageAddress(StorageSeed(sg))])
    /\ UNCHANGED <<client, chainVars, thread, used, late, built, instances, ci, mainVars>>

NextDerive == DeriveStorage

SpecDerive == InitDerive /\ [][NextDerive]_vars

\* ------------------------------------------------------------------ builders
\* The instruction builders and the create-account layout applied to step
\* budgets, payloads and account values drawn from these sets.  Integers
\* here are below 2^31; the builders treat every byte position alike.
MaxContinues == 2

StepBudgets == {0, 1, 255, 256, DefaultSteps, 65535, 65536, 2147483647}

Lamports == {0, 1, 10 ^ 9, 2147483647}

Spaces == {0, 256, 2147483647}

EtherAddresses ==
    {[i \in 1 .. 20 |-> 0], ether_caller, [i \in 1 .. 20 |-> 255]}

Nonces == {0, 1, 254, 255}

InitBuild ==
    /\ Init
    /\ caller_funded
    /\ tx.trx_account_metas = None

\* A transaction object as the builders find it: the caller account and the
\* storage account are set.
Prepared(t, sg) ==
    [t EXCEPT !.solana_ether_caller = ether2program(ether_caller),
              !.storage = StorageAddress(StorageSeed(sg))]

\* send_ethereum_trx_single: the call-from-raw instruction of a transaction.
BuildCallFromRaw ==
    /\ \E sg \in Signatures :
          LET t == Prepared(EthereumTransaction(<<1>>, None), sg)
          IN  built' = [kind |-> "call", t |-> t, payload |-> CallData(sg),
                        continues |-> 0, args |-> NoArgs,
                        data |-> sol_instr_05(t, CallData(sg)).data]
    /\ UNCHANGED <<client, chainVars, thread, used, late, derived, instances, ci, mainVars>>

\* send_ethereum_trx_iterative: the partial-call instruction of a
\* transaction constructed with a step budget.
BuildPartialCall ==
    /\ \E sg \in Signatures, steps \in StepBudgets :
          LET t == Prepared(EthereumTransactionSteps(<<1>>, None, steps), sg)
          IN  built' = [kind |-> "partial", t |-> t, payload |-> CallData(sg),
                        continues |-> 0, args |-> NoArgs,
                        data |-> sol_instr_09_partial_call(
                                     t, t.iterative_steps, CallData(sg)).data]
    /\ UNCHANGED <<client, chainVars, thread, used, late, derived, instances, ci, mainVars>>

\* send_ethereum_trx_iterative: a continue instruction of the same
\* transaction.
BuildContinue ==
    /\ built.kind \in {"partial", "continue"}
    /\ built.continues < MaxContinues
    /\ built' = [built EXCEPT
                   !.kind = "continue",
                   !.continues = @ + 1,
                   !.data = sol_instr_10_continue(
                                built.t, built.t.iterative_steps).data]
    /\ UNCHANGED <<client, chainVars, thread, used, late, derived, instances, ci, mainVars>>

\* CREATE_ACCOUNT_LAYOUT.build applied to a record.
BuildCreateAccount ==
    /\ \E l \in Lamports, s \in Spaces, e \in EtherAddresses, n \in Nonces :
          built' = [kind |-> "create", t |-> NotBuilt.t, payload |-> <<>>,
                    continues |-> 0,
                    args |-> [lamports |-> l, space |-> s, ether |-> e,
                              nonce |-> n],
                    data |-> CREATE_ACCOUNT_LAYOUT_build(l, s, e, n)]
    /\ UNCHANGED <<client, chainVars, thread, used, late, derived, instances, ci, mainVars>>

\* EvmLoader.createEtherAccount: the data of the instruction for an address
\* and the nonce ether2program reports for it.
BuildCreateEtherAccount ==
    /\ \E e \in EtherAddresses, n \in Nonces :
          built' = [kind |-> "create_ether", t |-> NotBuilt.t,
                    payload |-> <<>>, continues |-> 0,
                    args |-> [lamports |-> 10 ^ 9, space |-> 0, ether |-> e,
                              nonce |-> n],
                    data |-> createEtherAccountData(e, n)]
    /\ UNCHANGED <<client, chainVars, thread, used, late, derived, instances, ci, mainVars>>

NextBuild ==
    \/ BuildCallFromRaw
    \/ BuildPartialCall
    \/ BuildContinue
    \/ BuildCreateAccount
    \/ BuildCreateEtherAccount

SpecBuild == InitBuild /\ [][NextBuild]_vars

\* ------------------------------------------------------------------ clients
\* Several NeonEvmClient objects in one process: construction,
\* set_execute_mode and the dispatch of send_ethereum_trx.  The history
\* keeps, per client, the mode it was last asked to take, and for the
\* process the mode of the latest set_execute_mode on any client; last_send
\* keeps both as they were at the latest send.
InitClients ==
    /\ Init
    /\ caller_funded
    /\ tx.trx_account_metas = None

\* NeonEvmClient.__init__: self.mode = ExecuteMode.SINGLE
NewClient(c) ==
    /\ instances.mode[c] = "absent"
    /\ instances' = [instances EXCEPT !.mode[c] = "SINGLE"]
    /\ UNCHANGED <<client, chainVars, thread, used, late, derived, built, ci, mainVars>>

\* set_execute_mode on the client c: self.mode = ExecuteMode(new_mode)
ClientSetExecuteMode(c) ==
    /\ instances.mode[c] # "absent"
    /\ \E new_mode \in {"SINGLE", "ITERATIVE"} :
          instances' = [instances EXCEPT !.mode[c] = new_mode,
                                         !.asked[c] = new_mode,
                                         !.last_set = new_mode]
    /\ UNCHANGED <<client, chainVars, thread, used, late, derived, built, ci, mainVars>>

\* The mode a send reads when a mode last set on any client is every
\* client's mode.
self_mode_latest(c) ==
    IF instances.last_set = "none" THEN instances.mode[c]
    ELSE instances.last_set

\* self.mode as send_ethereum_trx of the client c reads it.
self_mode(c) == instances.mode[c]

\* send_ethereum_trx on the client c: the path it dispatches to.
ClientSend(c) ==
    /\ instances.mode[c] # "absent"
    /\ instances' =
         [instances EXCEPT
            !.path[c] = dispatch(self_mode(c)),
            !.last_send = [client |-> c,
                           path |-> dispatch(self_mode(c)),
                           last_set |-> instances.last_set,
                           asked |-> instances.asked[c]]]
    /\ UNCHANGED <<client, chainVars, thread, used, late, derived, built, ci, mainVars>>

NextClients ==
    \/ \E c \in Clients : NewClient(c)
    \/ \E c \in Clients : ClientSetExecuteMode(c)
    \/ \E c \in Clients : ClientSend(c)

SpecClients == InitClients /\ [][NextClients]_vars

\* ------------------------------------------------------------------- deploy
\* The commands of deploy.py, each a process of its own that shares nothing
\* with the others but the arguments the workflow passes: publish_image and
\* finalize_image on one image, or trigger_proxy_action with the proxy
\* repository's workflow runs on GitHub as the environment.
InitDeploy ==
    /\ Init
    /\ caller_funded
    /\ tx.trx_account_metas = None
    /\ loader_id = EVM_LOADER

deployFrame ==
    <<client, chainVars, thread, used, late, derived, built, instances, mainVars>>

\* The workflow passes a sha tag and a tag to the image commands.
StartImages ==
    /\ ci.pc = "idle"
    /\ \E sha \in ShaTags, tag \in Tags :
          ci' = [ci EXCEPT !.pc = "images",
                           !.args.evm_sha_tag = sha,
                           !.args.evm_tag = tag]
    /\ UNCHANGED deployFrame

\* The workflow passes its arguments to trigger_proxy_action; the proxy
\* branch has one finished run.
StartTrigger ==
    /\ ci.pc = "idle"
    /\ \E a \in Invocations :
          ci' = [ci EXCEPT
                   !.pc = "ready",
                   !.args = a,
                   !.runs = {1},
                   !.conclusion[1] = "success"]
    /\ UNCHANGED deployFrame

\* The command publish_image.
PublishImage ==
    /\ ci.pc = "images"
    /\ "publish" \notin ci.ran
    /\ ci' = [ci EXCEPT
                !.ran = @ \cup {"publish"},
                !.pushes.publish =
                    publish_image(ci.args.evm_sha_tag, ci.args.evm_tag)]
    /\ UNCHANGED deployFrame

\* The command finalize_image.
FinalizeImage ==
    /\ ci.pc = "images"
    /\ "finalize" \notin ci.ran
    /\ ci' = [ci EXCEPT
                !.ran = @ \cup {"finalize"},
                !.pushes.finalize =
                    finalize_image(ci.args.evm_sha_tag, ci.args.evm_tag)]
    /\ UNCHANGED deployFrame

\* trigger_proxy_action up to runs_before = get_proxy_runs_list(...), which
\* raises unless GitHub answers 200.
TriggerListBefore ==
    /\ ci.pc = "ready"
    /\ \E branch_exists \in BOOLEAN, answered \in BOOLEAN :
          ci' = [ci EXCEPT
                   !.pc = IF answered THEN "listed" ELSE "failed",
                   !.error = IF answered THEN "" ELSE "RuntimeError",
                   !.full_test_suite = full_test_suite_of(ci.args),
                   !.proxy_branch = proxy_branch_of(ci.args, branch_exists),
                   !.initial_pr = initial_pr_of(ci.args),
                   !.runs_before = IF answered THEN ci.runs ELSE {}]
    /\ UNCHANGED deployFrame

\* runs_count_before = get_proxy_runs_count(...)
TriggerCountBefore ==
    /\ ci.pc = "listed"
    /\ ci' = [ci EXCEPT !.pc = "counted",
                        !.runs_count_before = Cardinality(ci.runs)]
    /\ UNCHANGED deployFrame

\* github.run_proxy_dispatches(proxy_branch, evm_tag, evm_sha_tag,
\* evm_pr_version_branch, full_test_suite, initial_pr): the arguments are
\* positional; GitHub answers 204 or something else.
TriggerDispatch ==
    /\ ci.pc = "counted"
    /\ \E accepted \in BOOLEAN :
          ci' = [ci EXCEPT
                   !.data = run_proxy_dispatches(
                                ci.proxy_branch,
                                PyStr(ci.args.evm_tag),
                                PyStr(ci.args.evm_sha_tag),
                                ci.args.evm_pr_version_branch,
                                PyBool(ci.full_test_suite),
                                PyStr(ci.initial_pr)),
                   !.posted = TRUE,
                   !.pending = accepted,
                   !.pc = IF accepted THEN "waiting" ELSE "failed",
                   !.error = IF accepted THEN "" ELSE "RuntimeError",
                   !.waits = 0]
    /\ UNCHANGED deployFrame

\* GitHub creates the run of the dispatch.
OwnRunCreated ==
    /\ ci.pending
    /\ LET id == Cardinality(ci.runs) + 1
       IN  ci' = [ci EXCEPT !.pending = FALSE,
                            !.own = id,
                            !.runs = @ \cup {id},
                            !.conclusion[id] = "running"]
    /\ UNCHANGED deployFrame

\* GitHub creates a run on the same branch for another dispatch or push,
\* between the first listing and the second.
OtherRunCreated ==
    /\ ci.pc \in {"listed", "counted", "waiting", "listing"}
    /\ Cardinality(ci.runs \ ({1} \cup {ci.own})) < MaxOtherRuns
    /\ Cardinality(ci.runs) + 1 \in RunIds
    /\ LET id == Cardinality(ci.runs) + 1
       IN  ci' = [ci EXCEPT !.runs = @ \cup {id},
                            !.conclusion[id] = "running"]
    /\ UNCHANGED deployFrame

\* A run of the proxy workflow completes.
RunCompletes ==
    /\ \E id \in ci.runs, c \in {"success", "failure"} :
          /\ ci.conclusion[id] = "running"
          /\ ci' = [ci EXCEPT !.conclusion[id] = c]
    /\ UNCHANGED deployFrame

\* wait_condition(lambda: get_proxy_runs_count(...) > runs_count_before):
\* one round of the loop.
TriggerWaitCount ==
    /\ ci.pc = "waiting"
    /\ ci' = IF ci.waits >= MaxWaits
             THEN [ci EXCEPT !.pc = "failed", !.error = "RuntimeError"]
             ELSE IF Cardinality(ci.runs) > ci.runs_count_before
             THEN [ci EXCEPT !.pc = "listing", !.waits = 0]
             ELSE [ci EXCEPT !.waits = @ + 1]
    /\ UNCHANGED deployFrame

\* runs_after = get_proxy_runs_list(...);
\* proxy_run_id = list(set(runs_after) - set(runs_before))[0]: the first
\* element of a set, whichever the set's layout puts first; the listing
\* raises unless GitHub answers 200.
TriggerPickRun ==
    /\ ci.pc = "listing"
    /\ \/ \E id \in ci.runs \ ci.runs_before :
             ci' = [ci EXCEPT !.pc = "watching", !.proxy_run_id = id]
       \/ ci' = [ci EXCEPT !.pc = "failed", !.error = "RuntimeError"]
    /\ UNCHANGED deployFrame

\* wait_condition(lambda: get_proxy_run_info(id)["status"] == "completed"):
\* one round of the loop.
TriggerWaitCompleted ==
    /\ ci.pc = "watching"
    /\ ci' = IF ci.waits >= MaxWaits
             THEN [ci EXCEPT !.pc = "failed", !.error = "RuntimeError"]
             ELSE IF ci.conclusion[ci.proxy_run_id] \in {"success", "failure"}
             THEN [ci EXCEPT !.pc = "completed", !.waits = 0]
             ELSE [ci EXCEPT !.waits = @ + 1]
    /\ UNCHANGED deployFrame

\* The conclusion of the run is reported.
TriggerReport ==
    /\ ci.pc = "completed"
    /\ ci' = IF ci.conclusion[ci.proxy_run_id] = "success"
             THEN [ci EXCEPT !.pc = "passed"]
             ELSE [ci EXCEPT !.pc = "failed", !.error = "RuntimeError"]
    /\ UNCHANGED deployFrame

NextDeploy ==
    \/ StartImages
    \/ StartTrigger
    \/ PublishImage
    \/ FinalizeImage
    \/ TriggerListBefore
    \/ TriggerCountBefore
    \/ TriggerDispatch
    \/ OwnRunCreated
    \/ OtherRunCreated
    \/ RunCompletes
    \/ TriggerWaitCount
    \/ TriggerPickRun
    \/ TriggerWaitCompleted
    \/ TriggerReport

SpecDeploy == InitDeploy /\ [][NextDeploy]_vars

\* ------------------------------------------------------------------ claims
Iterative == path = "ITERATIVE"

Max(a, b) == IF a >= b THEN a ELSE b

\* The results fetched so far are those of a gateway scripted to return a
\* non-marker result for the first submissions and the marker from then on.
Scripted(h) ==
    \A i \in 1 .. Len(h) : \A j \in 1 .. Len(h) : (i < j /\ h[i]) => h[j]

\* The N of such a script: the number of results without the marker.
NonMarkers(h) == Cardinality({i \in 1 .. Len(h) : ~h[i]})

NoInnerInstructions(r) ==
    r.innerInstructions = <<>> \/ Last(r.innerInstructions) = <<>>

\* The last inner instruction has a first byte and it is not the marker.
MarkerDiffers(r) ==
    /\ ~NoInnerInstructions(r)
    /\ LET data == b58decode(Last(Last(r.innerInstructions)))
       IN  data # <<>> /\ data[1] # 6

\* C1: after a completed iterative run the transaction's _storage field is
\* None (the storage association has been cleared).
C1_StorageClearedOnCompletion ==
    (Iterative /\ pc = "done") => tx.storage = None

\* C2: a storage account referenced by the instructions of a run with one
\* signature is never referenced by the instructions of a run with another
\* signature.
C2_StorageNeverReused ==
    (IsIterativeBatch(batch) /\ prevRef # None /\ prevRef[2] = StorageKey(batch))
        => prevRef[1] = sign

\* C3: an iterative run returns a result only if it is the result of the
\* latest submitted transaction and the first byte of its last decoded
\* inner-instruction data is 6; when a continue result has no inner
\* instructions or another first byte, the run does not return and stands
\* at the submission of the next continue batch.
C3_ReturnOnlyOnMarker ==
    /\ [](Iterative /\ (pc = "done" \/ returned # <<>>)
            => /\ pc = "done"
               /\ returned # <<>>
               /\ returned = latest
               /\ CarriesMarker(returned[1]))
    /\ [][(/\ Iterative
           /\ pc = "continue"
           /\ Len(hist') = Len(hist) + 1
           /\ NoInnerInstructions(latest'[1]) \/ MarkerDiffers(latest'[1]))
            => (pc' = "continue" /\ sp' = "none" /\ returned' = <<>>)]_vars

C3_Witness ==
    /\ Iterative
    /\ pc = "done"
    /\ nsub = 3
    /\ returned # <<>>
    /\ Len(returned[1].innerInstructions[1]) = 2

C6_StopsAtIterationCap ==
    (Iterative /\ raised = "" /\ \A i \in 1 .. Len(hist) : ~hist[i])
        => nsub <= IterationCap + 1

\* C7: within one iterative run the partial-call instruction and every
\* continue instruction have the same storage account as their first key.
C7_OneStoragePerRun ==
    /\ Cardinality(runKeys) <= 1
    /\ IsIterativeBatch(batch)
         => (StorageKey(batch) \in runKeys /\ StorageKey(batch) # None)

C7_Witness ==
    Iterative /\ pc = "continue" /\ sp = "sent" /\ nsub = 3 /\ runKeys # {}

\* C8: within one run a batch is submitted only after the previous batch has
\* been confirmed and its result fetched: at most one batch of the run is in
\* flight, and at most the latest batch has no fetched result.
C8_Sequential ==
    /\ inflight \in {0, 1}
    /\ Len(hist) <= nsub
    /\ nsub <= Len(hist) + 1
    /\ (pc \in NeonPcs /\ sp = "none") => (inflight = 0 /\ Len(hist) = nsub)

C8_Witness ==
    Iterative /\ pc = "continue" /\ sp = "sent" /\ nsub = 2 /\ inflight = 1

\* C9: when the gateway raises an error on a submission (rejection or
\* confirmation timeout) the run ends with that error and returns nothing,
\* no further batch is submitted for the run, and no storage account is
\* closed: the created accounts stay created.
C9_GatewayErrorEndsRun ==
    /\ [](raised # "" => (pc = "failed" /\ error = raised /\ returned = <<>>))
    /\ [][(raised # "" /\ raised' # "") => (nsub' = nsub /\ batch' = batch)]_vars
    /\ [][created \subseteq created']_vars

C9_Witness ==
    /\ Iterative
    /\ pc = "failed"
    /\ raised = "RuntimeError"
    /\ nsub = 2
    /\ tx.storage # None

\* C10: when a fetched result reports an execution error the run is aborted
\* with the error: no batch is submitted after an errored result.
C10_ErroredResultAborts ==
    (Iterative /\ errs) => (pc = "failed" /\ Len(hist) = nsub)

Phase ==
    CASE pc \in {"caller", "create_caller"} -> 0
      [] pc \in {"count", "storage", "create_storage"} -> 1
      [] pc = "partial" /\ nsub = 0 -> 2
      [] pc \in {"partial", "continue"} /\ nsub >= 1 -> 3
      [] pc = "done" -> 4
      [] OTHER -> 5

\* C12: an iterative run starts in INIT and moves through CALLER_RESOLVED,
\* STORAGE_READY, STEP_SUBMITTED and DONE in this order, one state at a time
\* (or ends with an error); a batch has been submitted only when the caller
\* account has a balance and the storage account is resolved, a completed run
\* has submitted at least one batch, and nothing is submitted after DONE.
C12_PhaseOrder ==
    /\ [][(pc \in Resting /\ pc' \notin Resting) => pc' = "caller"]_vars
    /\ [][(Iterative /\ pc \notin Resting)
            => \/ Phase' = Phase
               \/ Phase' = Phase + 1
               \/ pc' = "failed"]_vars
    /\ []((Iterative /\ nsub >= 1) => (caller_funded /\ resolved # "none"))
    /\ []((Iterative /\ Phase \in {2, 3})
            => (tx.solana_ether_caller # None /\ tx.storage # None))
    /\ []((Iterative /\ pc = "done") => nsub >= 1)
    /\ [][pc = "done"
            => \/ nsub' = nsub /\ batch' = batch /\ sp' = "none"
               \/ pc' = "caller"]_vars

C12_Witness ==
    /\ Iterative
    /\ pc = "done"
    /\ nsub = 2
    /\ resolved = "created"
    /\ caller_funded

IsKeccak(instr) == instr.program_id = keccakprog

\* The instruction is sent to the evm_loader program with this opcode.
IsOp(instr, op) == instr.program_id = loader_id /\ instr.data[1] = op

\* C13: the first batch of an iterative run is exactly [keccak-verify,
\* partial-call], every later batch of the run is exactly [continue], and
\* the one batch of a single-shot run is exactly [keccak-verify,
\* call-from-raw]: the verification instruction stands before the
\* instruction that consumes it (and names it by index 1), and the partial
\* call is submitted once per run, in the first batch only.
C13_BatchComposition ==
    /\ (Iterative /\ nsub = 1)
         => /\ Len(batch) = 2
            /\ IsKeccak(batch[1])
            /\ batch[1].data[2] = 1
            /\ IsOp(batch[2], 9)
    /\ (Iterative /\ nsub >= 2)
         => /\ Len(batch) = 1
            /\ IsOp(batch[1], 10)
    /\ (path = "SINGLE" /\ nsub >= 1)
         => /\ nsub = 1
            /\ Len(batch) = 2
            /\ IsKeccak(batch[1])
            /\ batch[1].data[2] = 1
            /\ IsOp(batch[2], 5)
    /\ (pc \in NeonPcs /\ sp # "none") => nsub >= 1

C13_Witness ==
    /\ Iterative
    /\ pc = "done"
    /\ nsub = 2
    /\ Len(hist) = 2
    /\ Len(batch) = 1
    /\ batch[1].data[1] = 10

\* C14: a single-shot run submits its [keccak-verify, call-from-raw] batch
\* once: when the gateway accepts it the run returns the result of that
\* submission, and when the gateway rejects it the run fails at once with
\* that error, returns nothing and submits nothing again.
C14_SingleSubmitsOnce ==
    /\ [](path = "SINGLE" => nsub <= 1)
    /\ []((path = "SINGLE" /\ pc = "done")
            => /\ nsub = 1
               /\ returned # <<>>
               /\ returned = latest
               /\ error = "")
    /\ []((path = "SINGLE" /\ raised # "")
            => (pc = "failed" /\ error = raised /\ returned = <<>>))
    /\ [][(path = "SINGLE" /\ pc = "single" /\ raised = "" /\ raised' # "")
            => (pc' = "failed" /\ nsub' = nsub /\ batch' = batch)]_vars
    /\ [][(path = "SINGLE" /\ pc \in {"done", "failed"})
            => \/ nsub' = nsub /\ batch' = batch /\ sp' = "none"
               \/ pc' = "caller"]_vars

C14_Witness ==
    /\ path = "SINGLE"
    /\ pc = "failed"
    /\ raised = "SubmissionError"
    /\ sign # None
    /\ nsub = 0

\* The address the claim names: derived by the wallet and the loader from
\* the hexadecimal text of the first 8 bytes of the run's signature.
SignatureStorage ==
    accountWithSeed(wallet_public_key, hex(SubSeq(sign, 1, 8)), loader_id)

\* C15: when the transaction of an iterative run has no storage account
\* yet, the storage step derives the address from the first 8 bytes of the
\* signature and goes on to submit a create-account-with-seed transaction
\* if and only if the balance of that address is zero; the transaction it
\* submits asks for 10^9 lamports and 128 * 1024 bytes under the seed of
\* those 8 bytes, and the derived address becomes the run's storage.
C15_CreateIffBalanceZero ==
    /\ [][(pc = "storage" /\ tx.storage = None /\ pc' # pc)
            => /\ (pc' = "create_storage") <=> (SignatureStorage \notin created)
               /\ (pc' = "partial") <=> (SignatureStorage \in created)
               /\ pc' = "partial" => tx'.storage = SignatureStorage]_vars
    /\ []((pc = "create_storage" /\ sp # "none")
            => /\ Len(batch) = 1
               /\ batch[1].program_id = system
               /\ batch[1].data[1] = "CREATE_ACCOUNT_WITH_SEED"
               /\ batch[1].data[2] = wallet_public_key
               /\ batch[1].data[3] = hex(SubSeq(sign, 1, 8))
               /\ batch[1].data[4] = 1000000000
               /\ batch[1].data[5] = 131072)
    /\ [](pc = "create_storage" => tx.storage = None)
    /\ [][(pc = "create_storage" /\ pc' = "partial")
            => tx'.storage = SignatureStorage]_vars
    /\ [][(pc # "create_storage" /\ batch' # batch /\ batch' # <<>>)
            => batch'[1].program_id # system]_vars

C15_Witness ==
    /\ pc = "create_storage"
    /\ sp = "sent"
    /\ trx_count = 1
    /\ sign[1] = 17
    /\ batch[1].data[3] = <<1, 1, 0, 1, 0, 2, 0, 3, 0, 4, 0, 5, 0, 6, 0, 7>>

\* C16: the address whose balance the client checks and stores as the run's
\* storage account is the address the submitted create-account-with-seed
\* instruction creates (same base, same seed, same owning program id),
\* whatever loader id the client was constructed with; so once the create
\* transaction is confirmed the run's storage account exists.
C16_CreatedIsStorage ==
    /\ (pc = "create_storage" /\ sp # "none")
         => /\ batch[1].keys[2].pubkey = StorageAddress(StorageSeed(sign))
            /\ batch[1].data[2] = wallet_public_key
            /\ batch[1].data[3] = StorageSeed(sign)
            /\ batch[1].data[6] = loader_id
    /\ (Iterative /\ pc \in {"partial", "continue"} /\ resolved = "created")
         => tx.storage \in created

\* C17: with the default loader id, when two runs resolve the same storage
\* address concurrently, no create-with-seed transaction is submitted for an
\* account that has already been created, and no run fails because the
\* other run created the account between its balance check and its create
\* submission.
C17_CreateIdempotentUnderRace ==
    loader_id = EVM_LOADER
        => /\ ~late
           /\ \A t \in Threads : thread[t].error # "AccountInUse"

\* C18: any two submitted partial calls whose signatures differ, of runs one
\* after the other or at the same time, use different storage accounts.
C18_DistinctSignaturesDistinctStorage ==
    \A a \in used : \A b \in used : a[1] # b[1] => a[2] # b[2]

InRun(t) ==
    thread[t].pc \in {"storage", "create", "create_sent", "partial", "continue"}

\* C20: the count is read and used without a lock: a thread that stands at
\* the read of the count can take it whatever the other thread is doing, and
\* the signature a run uses is made with the count it read as the nonce, not
\* read again, so that two concurrent sends can hold the same nonce.
C20_CountReadUnserialized ==
    /\ \A t \in Threads :
          thread[t].pc = "count" => ENABLED ReadTransactionCount(t)
    /\ \A t \in Threads :
          InRun(t) => thread[t].sign = Sign(thread[t].caller_trx_cnt, <<1>>)

\* Both threads read the same count while the other was between its read and
\* its partial call, and both submitted a partial call with that nonce.
C20_Witness ==
    /\ thread[1].pc = "continue"
    /\ thread[2].pc = "continue"
    /\ thread[1].caller_trx_cnt = thread[2].caller_trx_cnt
    /\ thread[1].sign = thread[2].sign
    /\ thread[1].sign # None
    /\ trx_count = thread[1].caller_trx_cnt

C21_DispatchOnMode ==
    /\ mode = "SINGLE"
    /\ [][(pc \in Resting /\ pc' \notin Resting)
            => (path' = mode /\ mode' = mode)]_vars
    /\ [][pc \notin Resting => (mode' = mode /\ path' = path)]_vars
    /\ [][mode' # mode
            => (pc \in Resting /\ pc' = pc /\ nsub' = nsub /\ batch' = batch)]_vars
    /\ [](path = "SINGLE"
            => /\ pc \notin {"storage", "create_storage", "partial", "continue"}
               /\ nsub >= 1 => IsOp(Last(batch), 5))
    /\ [](path = "ITERATIVE"
            => /\ pc # "single"
               /\ nsub >= 1 => (IsOp(Last(batch), 9) \/ IsOp(Last(batch), 10)))

C21_Witness ==
    /\ mode = "SINGLE"
    /\ path = "ITERATIVE"
    /\ pc = "done"
    /\ nsub = 2
    /\ prevRef = None

\* One entry of a key list as the wire contract writes it.
Key(pubkey, signer, writable) ==
    [pubkey |-> pubkey, is_signer |-> signer, is_writable |-> writable]

\* The accounts the key lists name.
Operator == wallet_public_key
OperatorToken == <<"ata", wallet_public_key, ETH_TOKEN_MINT_ID>>
CallerAccount == <<"program_address", ether_caller>>
CallerToken == <<"ata", CallerAccount, ETH_TOKEN_MINT_ID>>
ContractToken == <<"ata", contract_account, ETH_TOKEN_MINT_ID>>
CollateralPool ==
    <<"sha256", collateral_pool_base, <<"collateral_seed_", 2>>, EVM_LOADER>>

\* The instruction was sent to the evm_loader program and is of this kind.
Submitted(op) == nsub >= 1 /\ IsOp(Last(batch), op)

\* C22: the key list of every call-from-raw instruction starts with these 15
\* keys in this order: sysvar, operator (signer, writable), collateral pool
\* (writable), operator token (writable), caller token (writable), system
\* program, contract (writable), contract token (writable), contract code
\* (writable), caller (writable), caller token (writable), program id, token
\* mint, token program, operator (read-only, not signer); nothing but the
\* transaction's extra metas follows them.
C22_CallFromRawKeys ==
    Submitted(5)
        => /\ Len(Last(batch).keys) >= 15
           /\ SubSeq(Last(batch).keys, 1, 15) =
                <<Key(sysinstruct, FALSE, FALSE),
                  Key(Operator, TRUE, TRUE),
                  Key(CollateralPool, FALSE, TRUE),
                  Key(OperatorToken, FALSE, TRUE),
                  Key(CallerToken, FALSE, TRUE),
                  Key(system, FALSE, FALSE),
                  Key(contract_account, FALSE, TRUE),
                  Key(ContractToken, FALSE, TRUE),
                  Key(contract_code_account, FALSE, TRUE),
                  Key(CallerAccount, FALSE, TRUE),
                  Key(CallerToken, FALSE, TRUE),
                  Key(loader_id, FALSE, FALSE),
                  Key(ETH_TOKEN_MINT_ID, FALSE, FALSE),
                  Key(TOKEN_PROGRAM_ID, FALSE, FALSE),
                  Key(Operator, FALSE, FALSE)>>
           /\ pc \notin Resting
                => Len(Last(batch).keys) =
                     15 + (IF tx.trx_account_metas = None THEN 0
                           ELSE Len(tx.trx_account_metas))

C22_Witness ==
    /\ Submitted(5)
    /\ pc = "single"
    /\ sp = "sent"
    /\ Len(Last(batch).keys) = 16
    /\ loader_id # EVM_LOADER

\* C23: the key list of every partial-call instruction starts with these 15
\* keys in this order: storage (writable), sysvar, operator (signer,
\* writable), collateral pool (writable), system program, contract
\* (writable), contract token (writable), contract code (writable), caller
\* (writable), caller token (writable), sysvar, program id, token mint,
\* token program, operator (read-only, not signer); the storage key is the
\* transaction's storage account.
C23_PartialCallKeys ==
    Submitted(9)
        => /\ Len(Last(batch).keys) >= 15
           /\ Last(batch).keys[1].pubkey # None
           /\ pc \notin Resting => Last(batch).keys[1].pubkey = tx.storage
           /\ SubSeq(Last(batch).keys, 1, 15) =
                <<Key(Last(batch).keys[1].pubkey, FALSE, TRUE),
                  Key(sysinstruct, FALSE, FALSE),
                  Key(Operator, TRUE, TRUE),
                  Key(CollateralPool, FALSE, TRUE),
                  Key(system, FALSE, FALSE),
                  Key(contract_account, FALSE, TRUE),
                  Key(ContractToken, FALSE, TRUE),
                  Key(contract_code_account, FALSE, TRUE),
                  Key(CallerAccount, FALSE, TRUE),
                  Key(CallerToken, FALSE, TRUE),
                  Key(sysinstruct, FALSE, FALSE),
                  Key(loader_id, FALSE, FALSE),
                  Key(ETH_TOKEN_MINT_ID, FALSE, FALSE),
                  Key(TOKEN_PROGRAM_ID, FALSE, FALSE),
                  Key(Operator, FALSE, FALSE)>>

C23_Witness ==
    /\ Submitted(9)
    /\ pc = "partial"
    /\ sp = "sent"
    /\ resolved = "found"
    /\ Len(Last(batch).keys) = 15

LittleEndian4(b) == b[1] + 256 * b[2] + 65536 * b[3] + 16777216 * b[4]

\* Eight bytes that hold the value v (below 2^31) least significant byte
\* first.
Holds8(b, v) ==
    /\ Len(b) = 8
    /\ \A i \in 1 .. 8 : b[i] \in 0 .. 255
    /\ \A i \in 5 .. 8 : b[i] = 0
    /\ b[4] <= 127
    /\ LittleEndian4(b) = v

\* C25: call-from-raw data is the byte 5, the collateral pool index 2 as four
\* bytes little-endian, then the payload; partial-call data is the byte 9,
\* the same four bytes, the step count as eight bytes little-endian, then
\* the payload; continue data is the byte 10 and the step count as eight
\* bytes little-endian; the step count of the partial call and of every
\* continue that follows it is the step budget the transaction was
\* constructed with.
C25_PayloadLayouts ==
    /\ built.kind = "call"
         => built.data = <<5, 2, 0, 0, 0>> \o built.payload
    /\ built.kind = "partial"
         => /\ Len(built.data) = 13 + Len(built.payload)
            /\ SubSeq(built.data, 1, 5) = <<9, 2, 0, 0, 0>>
            /\ Holds8(SubSeq(built.data, 6, 13), built.t.iterative_steps)
            /\ SubSeq(built.data, 14, Len(built.data)) = built.payload
    /\ built.kind = "continue"
         => /\ Len(built.data) = 9
            /\ built.data[1] = 10
            /\ Holds8(SubSeq(built.data, 2, 9), built.t.iterative_steps)

C25_Witness ==
    /\ built.kind = "continue"
    /\ built.continues = 2
    /\ built.t.iterative_steps = 65536
    /\ built.data = <<10, 0, 0, 1, 0, 0, 0, 0, 0>>

\* The bytes of the create-account record inside what was built: the whole
\* of it, or what follows the four opcode bytes of createEtherAccount.
RecordBytes ==
    IF built.kind = "create_ether"
    THEN SubSeq(built.data, 5, Len(built.data))
    ELSE built.data

\* C28: decoding an encoded create-account record yields the original
\* lamports, space, ether address and nonce; the record is 37 bytes: lamports
\* and space as eight bytes little-endian each, then the 20 bytes of the
\* ether address, then the nonce byte.
C28_CreateAccountRoundTrip ==
    built.kind \in {"create", "create_ether"}
        => /\ CREATE_ACCOUNT_LAYOUT_parse(RecordBytes) = built.args
           /\ Len(RecordBytes) = 37
           /\ Holds8(SubSeq(RecordBytes, 1, 8), built.args.lamports)
           /\ Holds8(SubSeq(RecordBytes, 9, 16), built.args.space)
           /\ SubSeq(RecordBytes, 17, 36) = built.args.ether
           /\ RecordBytes[37] = built.args.nonce
           /\ built.kind = "create_ether"
                => SubSeq(built.data, 1, 4) = <<2, 0, 0, 0>>

C28_Witness ==
    /\ built.kind = "create"
    /\ built.args.lamports = 2147483647
    /\ built.args.space = 256
    /\ built.args.ether = ether_caller
    /\ built.args.nonce = 254
    /\ SubSeq(built.data, 1, 16) =
         <<255, 255, 255, 127, 0, 0, 0, 0, 0, 1, 0, 0, 0, 0, 0, 0>>

\* C27: the client's collateral pool address is in every state the address
\* derived at construction from the index 2, and its encoded index is that
\* index as four bytes little-endian, so no operation changes either; every
\* call-from-raw and partial-call instruction submitted carries that address
\* as its collateral pool key and that index after its opcode.
C27_CollateralPoolFixed ==
    /\ collateral_pool_address = CollateralPool
    /\ collateral_pool_index_buf = <<2, 0, 0, 0>>
    /\ \A i \in 1 .. Len(batch) :
          /\ (batch[i].program_id = loader_id /\ batch[i].data[1] = 5)
               => /\ batch[i].keys[3].pubkey = collateral_pool_address
                  /\ SubSeq(batch[i].data, 2, 5) = collateral_pool_index_buf
          /\ (batch[i].program_id = loader_id /\ batch[i].data[1] = 9)
               => /\ batch[i].keys[4].pubkey = collateral_pool_address
                  /\ SubSeq(batch[i].data, 2, 5) = collateral_pool_index_buf

C27_Witness ==
    /\ Submitted(9)
    /\ loader_id # EVM_LOADER
    /\ prevRef # None
    /\ pc = "partial"
    /\ Last(batch).keys[4].pubkey = CollateralPool

\* The node's answer holds no account record: there is no account, or its
\* data is shorter than the 127 bytes of a record.
NoRecord == info.read /\ (~info.exists \/ Len(info.data) < 127)

\* C26: when the caller's account is missing, or its data is shorter than
\* the account record, the read of the transaction count raises and returns
\* no count: the send ends there with that error, without a signature made
\* from a count, without a returned result and without any batch submitted;
\* a run that went past the read had a whole record, and signed with the
\* count stored in it.
C26_ShortRecordFails ==
    /\ NoRecord
         => /\ pc = "failed"
            /\ error = "Exception"
            /\ sign = None
            /\ returned = <<>>
            /\ nsub = 0
            /\ \A i \in 1 .. Len(batch) :
                  ~(IsOp(batch[i], 5) \/ IsOp(batch[i], 9) \/ IsOp(batch[i], 10))
    /\ (info.read /\ ~NoRecord /\ sign # None)
         => sign = Sign(LittleEndian4(SubSeq(info.data, 23, 26)), tx.trx_data)
    /\ (pc \in NeonPcs \/ nsub >= 1) => (info.read /\ ~NoRecord)

C26_Witness ==
    /\ info.read
    /\ info.exists
    /\ Len(info.data) = 126
    /\ pc = "failed"
    /\ path = "ITERATIVE"
    /\ trx_count = 1

\* C29: the mode is process-wide: once set_execute_mode was called on some
\* client, a send through any client is dispatched according to the mode set
\* last.
C29_ModeProcessWide ==
    (instances.last_send.client # 0 /\ instances.last_send.last_set # "none")
        => instances.last_send.path = instances.last_send.last_set

\* C29 as the code has it: the mode is a field of each client; a send is
\* dispatched according to the mode last set on the client it goes through,
\* the single-shot path if none was set on it, whatever was set on the
\* other clients.
C29_ModePerClient ==
    /\ instances.last_send.client # 0
         => instances.last_send.path =
              (IF instances.last_send.asked = "none" THEN "SINGLE"
               ELSE instances.last_send.asked)
    /\ \A c \in Clients :
          instances.path[c] # "none" => instances.mode[c] # "absent"

C29_Witness ==
    /\ instances.last_send.client = 2
    /\ instances.last_send.last_set = "ITERATIVE"
    /\ instances.last_send.asked = "none"
    /\ instances.last_send.path = "SINGLE"
    /\ instances.mode[1] = "ITERATIVE"

\* The status a poll accepts, as the wire reports it.
Accepted == status \in {"confirmed", "finalized"}

\* C30: while a submitted transaction waits for its confirmation, a poll or
\* the end of the wait can always happen; the polls that found no accepted
\* status never exceed the budget, and once they have used it up no further
\* poll is made and the wait ends with RuntimeError; the wait has returned
\* normally only with a status that a poll accepted, and RuntimeError was
\* raised only with the budget used up.
C30_ConfirmBounded ==
    /\ elapsed \in 0 .. MaxPolls
    /\ sp = "sent"
         => /\ ENABLED ConfirmPoll \/ ENABLED ConfirmTimeout
            /\ elapsed = MaxPolls <=> ENABLED ConfirmTimeout
            /\ elapsed = MaxPolls => ~ENABLED ConfirmPoll
    /\ sp = "confirmed" => Accepted
    /\ raised = "RuntimeError"
         => /\ elapsed = MaxPolls
            /\ sp = "none"
            /\ pc = "failed"
            /\ error = "RuntimeError"

C30_Witness ==
    /\ raised = "RuntimeError"
    /\ elapsed = MaxPolls
    /\ status = "processed"
    /\ path = "ITERATIVE"
    /\ nsub = 2
    /\ pc = "failed"

\* C31: the wait of send_transaction ends successfully only in a poll made
\* while the signature's status is finalized or confirmed (no confirmations
\* are required); with no status or the status processed it goes on or
\* times out; a result is fetched, and returned, only after such a poll, and
\* a send that was waiting goes on to its next step without one only by
\* raising.
C31_FetchOnlyAfterAccepted ==
    /\ [][(sp = "sent" /\ sp' = "confirmed")
            => (status \in {"confirmed", "finalized"} /\ status' = status)]_vars
    /\ [][(sp = "sent" /\ status \in {"none", "processed"} /\ status' = status)
            => (sp' = "sent" \/ (raised' = "RuntimeError" /\ pc' = "failed"))]_vars
    /\ [][(latest' # latest /\ latest' # <<>>)
            => (sp = "confirmed" /\ status \in {"confirmed", "finalized"})]_vars
    /\ [][(returned' # returned /\ returned' # <<>>)
            => (sp = "confirmed" /\ status \in {"confirmed", "finalized"}
                /\ returned' = latest')]_vars
    /\ [][(sp # "none" /\ sp' = "none" /\ pc' # "failed") => sp = "confirmed"]_vars

C31_Witness ==
    /\ sp = "confirmed"
    /\ status = "confirmed"
    /\ elapsed = 1
    /\ pc = "single"
    /\ nsub = 1
    /\ latest = <<>>

\* The extra metas of the transaction as a list (empty if it carries none).
Extra == IF tx.trx_account_metas = None THEN <<>> ELSE tx.trx_account_metas

\* The fixed key list of the evm_loader instruction of the submitted batch,
\* as its builder makes it for the transaction.
FixedKeys ==
    CASE IsOp(Last(batch), 5) -> sol_instr_05(tx, CallData(sign)).keys
      [] IsOp(Last(batch), 9) ->
            sol_instr_09_partial_call(tx, tx.iterative_steps, CallData(sign)).keys
      [] IsOp(Last(batch), 10) ->
            sol_instr_10_continue(tx, tx.iterative_steps).keys

\* C32: in every call-from-raw, partial-call and continue batch of a run
\* the keys of the last instruction are its fixed key list followed by the
\* transaction's extra metas, once and in their order, and exactly the fixed
\* list if the transaction carries none; the keys of the keccak-verify
\* instruction before it are its one fixed key; no step of a run changes the
\* transaction's extra-metas list.
C32_ExtraMetasAppendedOnce ==
    /\ []((nsub >= 1 /\ pc \notin Resting)
            => /\ Len(FixedKeys) = 15
               /\ Last(batch).keys = FixedKeys \o Extra
               /\ Len(batch) = 2
                    => /\ IsKeccak(batch[1])
                       /\ batch[1].keys = <<Key(keccakprog, FALSE, FALSE)>>
               /\ Len(batch) = (IF IsOp(Last(batch), 10) THEN 1 ELSE 2))
    /\ [][pc \notin Resting
            => tx'.trx_account_metas = tx.trx_account_metas]_vars

C32_Witness ==
    /\ Submitted(9)
    /\ pc = "partial"
    /\ sp = "sent"
    /\ tx.trx_account_metas # None
    /\ Len(Last(batch).keys) = 16
    /\ Last(batch).keys[16] = tx.trx_account_metas[1]
    /\ Len(batch[1].keys) = 1

\* The tags of the workflow's arguments that are release tags, and the
\* others, by hand.
ReleaseTags ==
    {<<"v", "1", ".", "2", ".", "3">>, <<"t", "1", "0", ".", "2", "0", ".", "3">>}

OtherTags ==
    {s_develop, <<"v", "1", ".", "2", ".", "x">>, <<"v", "1", ".", "2">>,
     <<"a", "1", "f">>}

\* The command pushed the image under the tag.
Pushed(command, tag) ==
    \E i \in 1 .. Len(ci.pushes[command]) : ci.pushes[command][i] = tag

\* C33: once publish_image and finalize_image have both run with the same
\* arguments, exactly one of them has pushed the image under the tag:
\* finalize_image alone if the tag is "latest" or a release tag, publish_image
\* alone otherwise; publish_image has pushed the sha tag in either case, and
\* finalize_image has pushed nothing but a "latest" or release tag.
C33_OneCommandPushesTag ==
    /\ ci.args.evm_tag \in ReleaseTags \cup OtherTags \cup {s_latest, <<>>}
    /\ "publish" \in ci.ran
         => /\ Pushed("publish", ci.args.evm_sha_tag)
            /\ Pushed("publish", ci.args.evm_tag)
                 <=> ci.args.evm_tag \in OtherTags
            /\ \A i \in 1 .. Len(ci.pushes.publish) :
                  ci.pushes.publish[i] \in {ci.args.evm_sha_tag, ci.args.evm_tag}
    /\ "finalize" \in ci.ran
         => /\ Pushed("finalize", ci.args.evm_tag)
                 <=> ci.args.evm_tag \in ReleaseTags \cup {s_latest}
            /\ \A i \in 1 .. Len(ci.pushes.finalize) :
                  ci.pushes.finalize[i] = ci.args.evm_tag
    /\ ci.ran = {"publish", "finalize"}
         => (Pushed("publish", ci.args.evm_tag)
               <=> ~Pushed("finalize", ci.args.evm_tag))

C33_Witness ==
    /\ ci.ran = {"publish", "finalize"}
    /\ ci.args.evm_tag = <<"t", "1", "0", ".", "2", "0", ".", "3">>
    /\ ci.pushes.publish = <<ci.args.evm_sha_tag>>
    /\ ci.pushes.finalize = <<ci.args.evm_tag>>

\* The lowercase text of a flag, as the dispatch input should carry it.
FlagText(flag) ==
    IF flag THEN <<"t", "r", "u", "e">> ELSE <<"f", "a", "l", "s", "e">>

\* C34: the dispatch trigger_proxy_action posts carries the values it
\* computed under the matching input names: full_test_suite is the computed
\* flag in lowercase, neon_evm_commit the sha tag, neon_evm_branch the tag,
\* and initial_pr the comments URL of the pull request or the empty string.
C34_DispatchCarriesComputedValues ==
    ci.posted
      => /\ ci.data.ref = ci.proxy_branch
         /\ ci.data.inputs.full_test_suite = PyStr(FlagText(ci.full_test_suite))
         /\ ci.data.inputs.neon_evm_commit = PyStr(ci.args.evm_sha_tag)
         /\ ci.data.inputs.neon_evm_branch = PyStr(ci.args.evm_tag)
         /\ ci.data.inputs.initial_pr = PyStr(ci.initial_pr)

\* C35: the run trigger_proxy_action waits on and reports is the run its own
\* dispatch created, whatever other runs appear on the proxy branch between
\* its two listings.
C35_WaitsOnOwnRun ==
    ci.proxy_run_id # 0 => ci.proxy_run_id = ci.own

====
